---- MODULE Spec2Model ----
(***************************************************************************)
(* Background service worker of the "Style Me" extension: the product      *)
(* image cache kept in chrome.storage.local, the image fetcher, the        *)
(* product image extractor and the progressive outfit composer, as they    *)
(* are written in the cached version of the background script              *)
(* (src/unnamed/part_001, lines 666-1721).                                 *)
(***************************************************************************)
EXTENDS Integers, Sequences, FiniteSets, TLC

VARIABLES
  storage,     \* chrome.storage.local: a function from the keys present to their values
  now,         \* Date.now(), in milliseconds
  ret,         \* what the last call of a cache operation returned
  lastIO,      \* how the chrome.storage calls of the last step ended
  pc,          \* position of the STYLE_ME_CLICKED handler
  req,         \* message.data of the request being handled
  apiKey,      \* storedData.apiKey
  baseRef,     \* data.userImage ?? storedData.userImage
  idx,         \* loop index i of generateOutfitImage
  current,     \* currentBaseImageBase64
  itemImg,     \* actualProductImageBase64
  rawImg,      \* productImageBase64 of extractActualProductImage
  pending,     \* the image a response refers to, being fetched or cached
  via,         \* how the current item's image was resolved
  composeLog,  \* the composition calls issued for this request, in order
  nExtract,    \* extraction synthesis calls issued for this request
  nFetch,      \* image fetches issued for this request
  hits,        \* items of this request served from the cache
  healthy,     \* no fetch failed and every synthesis response carried an image
  failedItem,  \* 1-based position of the item whose composition step failed, or 0
  failCause,   \* why that composition step failed
  sent,        \* messages sent to the requesting tab for this request
  sweep,       \* the expiry sweep in progress: its position and its keysToRemove
  workers,     \* concurrent calls of extractActualProductImage, one per tab
  fetched,     \* the last call of convertUrlToBase64 looked at on its own: response and result
  parsed,      \* the last parsing of a synthesis response looked at on its own
  single,      \* single-call generateOutfitImage: productImages, productNames, the calls issued
  tryOn,       \* the content script's side of a request: its wait and what it displayed
  tabs,        \* concurrent requests: the handler started for each tab's message
  outbox,      \* the messages chrome.tabs.sendMessage delivered, per destination tab
  reply,       \* what the background listener last passed to sendResponse
  preload,     \* preloadProductImages in progress: its position, its input and its results
  page,        \* the content script: processedRequests, its pending sends and timers, its dispatches
  saved,       \* the content script's savedProducts, the stored copy and the initial load
  hashed       \* generateUrlHash looked at on its own: the url and what its calls returned

vars == <<storage, now, ret, lastIO, pc, req, apiKey, baseRef, idx, current,
          itemImg, rawImg, pending, via, composeLog, nExtract, nFetch, hits,
          healthy, failedItem, failCause, sent, sweep, workers, fetched, parsed, single,
          tryOn, tabs, outbox, reply, preload, page, saved, hashed>>

\* The state of the page side (content script) and of the other entry points
scriptVars == <<tryOn, tabs, outbox, reply, preload, page, saved, hashed>>

auxVars == <<fetched, parsed, single, scriptVars>>

sharedVars == <<sweep, workers, auxVars>>

pipeVars == <<pc, req, apiKey, baseRef, idx, current, itemImg, rawImg, pending,
              via, composeLog, nExtract, nFetch, hits, healthy, failedItem,
              failCause, sent>>

-----------------------------------------------------------------------------
(* Bounds *)

MaxItems == 2      \* longest product list of a request
MaxTicks == 4      \* the clock runs from TickMs to MaxTicks * TickMs
MaxDeliveries == 3 \* messages delivered to the content script's listener
MaxImages == 21    \* distinct product images the user meets
MaxRemovals == 1   \* removeProduct calls
MaxUrlLen == 3     \* length of the urls generateUrlHash is called with on its own

-----------------------------------------------------------------------------
(* JavaScript values.  A string is known by its prefix (scheme) and by what *)
(* follows the prefix (content).                                            *)

NoContent == [k |-> "none"]
Null == [t |-> "null", scheme |-> "", content |-> NoContent]
EmptyString == [t |-> "string", scheme |-> "", content |-> NoContent]
JunkString == [t |-> "string", scheme |-> "junk", content |-> NoContent]
NotAString == [t |-> "number", scheme |-> "", content |-> NoContent]

\* A string "http...", known by its characters chars (their char codes)
Url(chars) == [t |-> "string", scheme |-> "http", content |-> [k |-> "addr", chars |-> chars]]
\* "http..." under which the synthesis service hosts the image img
RefUrl(img) == [t |-> "string", scheme |-> "http", content |-> [k |-> "ref", img |-> img]]
\* "data:<mime>;base64,<img>"
DataUrl(img) == [t |-> "string", scheme |-> "data", content |-> img]

\* JS truthiness: null, undefined and '' are falsy
Truthy(v) == v.t # "null" /\ ~(v.t = "string" /\ v.scheme = "" /\ v.content = NoContent)
IsString(v) == v.t = "string"
StartsWithData(v) == v.t = "string" /\ v.scheme = "data"
StartsWithHttp(v) == v.t = "string" /\ v.scheme = "http"

-----------------------------------------------------------------------------
(* generateUrlHash *)

Limb == 2 ^ 16

\* hash = (hash << 5) - hash + char; hash = hash & hash, on the 32-bit value
\* held as two unsigned 16-bit limbs <<high, low>>: the shift, the
\* subtraction and the addition are carried out limb by limb, and the carry
\* out of the high limb is what hash & hash drops.
HashStep(h, c) ==
  LET shLo == h[2] * 32
      shHi == h[1] * 32 + (shLo \div Limb)
      lo == (shLo % Limb) - h[2] + c + Limb
      hi == (shHi % Limb) - h[1] + (lo \div Limb) - 1 + 2 * Limb
  IN <<hi % Limb, lo % Limb>>

RECURSIVE HashFold(_, _)
HashFold(h, chars) ==
  IF chars = <<>> THEN h ELSE HashFold(HashStep(h, Head(chars)), Tail(chars))

\* Math.abs of the signed 32-bit value held in the limbs, itself in limbs:
\* the absolute value of -2^31 is 2^31, outside the signed range
AbsInt32Unsigned(h) == h
AbsInt32(h) ==
  IF h[1] < Limb \div 2 THEN h
  ELSE IF h[2] = 0 THEN <<Limb - h[1], 0>>
       ELSE <<Limb - 1 - h[1], Limb - h[2]>>

\* Number.prototype.toString(36) of the value in the limbs n, as the sequence
\* of base-36 digits, by long division
RECURSIVE ToString36(_)
ToString36(n) ==
  LET mid == (n[1] % 36) * Limb + n[2]
      quotient == <<n[1] \div 36, mid \div 36>>
  IN IF quotient = <<0, 0>> THEN <<mid % 36>>
     ELSE ToString36(quotient) \o <<mid % 36>>

generateUrlHashConstant(url) == <<0>>
generateUrlHash(url) == ToString36(AbsInt32(HashFold(<<0, 0>>, url.content.chars)))

\* `productImage_${urlHash}`
CacheKey(url) == [ns |-> "productImage_", id |-> generateUrlHash(url)]
ApiKeyKey == [ns |-> "openRouterApiKey", id |-> <<>>]
UserImageKey == [ns |-> "userImage", id |-> <<>>]
SavedProductsKey == [ns |-> "savedProducts", id |-> <<>>]

IsCacheKey(k) == k.ns = "productImage_"

-----------------------------------------------------------------------------
(* chrome.storage.local *)

NoEntry == [image |-> Null, timestamp |-> 0, url |-> Null]
NoIO == [get |-> "none", set |-> "none", remove |-> "none"]
Outcome(ok) == IF ok THEN "ok" ELSE "fail"

StorageRemove(st, keys) == [k \in (DOMAIN st) \ keys |-> st[k]]
StorageSetIfAbsent(st, key, value) ==
  [k \in (DOMAIN st) \cup {key} |-> IF k \in DOMAIN st THEN st[k] ELSE value]
StorageSet(st, key, value) == [k \in (DOMAIN st) \cup {key} |-> IF k = key THEN value ELSE st[k]]

-----------------------------------------------------------------------------
(* The content cache *)

\* The validation of a cached entry's image
ValidImageSkipped(image) == TRUE
ValidImage(image) == IsString(image) /\ StartsWithData(image)

\* getCachedProductImage: the entry or null, and the storage it leaves.
\* getOk, removeOk: whether chrome.storage.local.get / remove resolve.
getCachedProductImageExtractedOnly(st, url, getOk, removeOk) ==
  LET k == CacheKey(url) IN
  IF ~getOk
  THEN [hit |-> FALSE, entry |-> NoEntry, storage |-> st,
        io |-> [NoIO EXCEPT !.get = "fail"]]
  ELSE IF k \in DOMAIN st /\ Truthy(st[k].image)
       THEN IF ValidImage(st[k].image) /\ st[k].image.content.k # "raw"
            THEN [hit |-> TRUE, entry |-> st[k], storage |-> st,
                  io |-> [NoIO EXCEPT !.get = "ok"]]
            ELSE [hit |-> FALSE, entry |-> NoEntry,
                  storage |-> IF removeOk THEN StorageRemove(st, {k}) ELSE st,
                  io |-> [NoIO EXCEPT !.get = "ok", !.remove = Outcome(removeOk)]]
       ELSE [hit |-> FALSE, entry |-> NoEntry, storage |-> st,
             io |-> [NoIO EXCEPT !.get = "ok"]]
getCachedProductImage(st, url, getOk, removeOk) ==
  LET k == CacheKey(url) IN
  IF ~getOk
  THEN [hit |-> FALSE, entry |-> NoEntry, storage |-> st,
        io |-> [NoIO EXCEPT !.get = "fail"]]
  ELSE IF k \in DOMAIN st /\ Truthy(st[k].image)
       THEN IF ValidImage(st[k].image)
            THEN [hit |-> TRUE, entry |-> st[k], storage |-> st,
                  io |-> [NoIO EXCEPT !.get = "ok"]]
            ELSE [hit |-> FALSE, entry |-> NoEntry,
                  storage |-> IF removeOk THEN StorageRemove(st, {k}) ELSE st,
                  io |-> [NoIO EXCEPT !.get = "ok", !.remove = Outcome(removeOk)]]
       ELSE [hit |-> FALSE, entry |-> NoEntry, storage |-> st,
             io |-> [NoIO EXCEPT !.get = "ok"]]

\* cacheProductImage: the storage it leaves (a failed set is logged, not thrown)
cacheProductImageOnce(st, url, image, t, setOk) ==
  IF setOk /\ CacheKey(url) \notin DOMAIN st
  THEN StorageSet(st, CacheKey(url), [image |-> image, timestamp |-> t, url |-> url])
  ELSE st
cacheProductImage(st, url, image, t, setOk) ==
  IF setOk
  THEN StorageSet(st, CacheKey(url), [image |-> image, timestamp |-> t, url |-> url])
  ELSE st

\* Whether the two operations reject when a storage call of theirs rejected:
\* both catch the error and log it (get then returns null)
getCachedProductImageThrows(io) == FALSE
cacheProductImageThrows(io) == FALSE

DefaultMaxAge == 24 * 60 * 60 * 1000

\* The keys cleanupOldCachedImages collects from the snapshot it read
ExpiredKeysInclusive(st, t, maxAge) ==
  {k \in DOMAIN st : IsCacheKey(k) /\ st[k].timestamp # 0 /\ t - st[k].timestamp >= maxAge}
ExpiredKeys(st, t, maxAge) ==
  {k \in DOMAIN st : IsCacheKey(k) /\ st[k].timestamp # 0 /\ t - st[k].timestamp > maxAge}

\* cleanupOldCachedImages: the storage it leaves
cleanupOldCachedImages(st, t, maxAge, getOk, removeOk) ==
  IF ~getOk THEN st
  ELSE LET keysToRemove == ExpiredKeys(st, t, maxAge) IN
       IF keysToRemove # {} /\ removeOk THEN StorageRemove(st, keysToRemove) ELSE st

\* The keys clearProductImageCache collects from the snapshot it read
ClearKeysEverything(st) == DOMAIN st
ClearKeys(st) == {k \in DOMAIN st : IsCacheKey(k)}

\* clearProductImageCache: the storage it leaves (a failed call is logged, not thrown)
clearProductImageCache(st, getOk, removeOk) ==
  IF ~getOk THEN st
  ELSE LET keysToRemove == ClearKeys(st) IN
       IF keysToRemove # {} /\ removeOk THEN StorageRemove(st, keysToRemove) ELSE st

-----------------------------------------------------------------------------
(* The inputs and the initial contents of the storage *)

TickMs == 12 * 60 * 60 * 1000

\* Source image references of the products; UrlA and UrlB hash to the same key
UrlA == Url(<<65, 97>>)
UrlB == Url(<<66, 66>>)
UrlC == Url(<<67>>)
SourceUrls == {UrlA, UrlB, UrlC}

\* What a fetch of url yields: the image behind the reference
Served(url) ==
  IF url.scheme = "data" THEN url.content
  ELSE IF url.content.k = "ref" THEN url.content.img
  ELSE [k |-> "raw", of |-> url.content.chars]

\* What the synthesis service generates
Extracted(img) == [k |-> "extracted", of |-> img]
Composed(base, item) == [k |-> "composed", base |-> base, item |-> item]

StoredPhoto == DataUrl([k |-> "photo", id |-> "stored"])
RequestPhoto == Url(<<80>>)
ApiKeyValue == [t |-> "string", scheme |-> "sk", content |-> NoContent]

Credentials ==
  { (ApiKeyKey :> [value |-> ApiKeyValue]) @@ (UserImageKey :> [value |-> StoredPhoto])
      @@ (SavedProductsKey :> [value |-> EmptyString]),
    (UserImageKey :> [value |-> StoredPhoto]),
    (ApiKeyKey :> [value |-> ApiKeyValue]) }

\* Cache entries left by earlier runs of the worker, sound or corrupted
SoundSeed == (CacheKey(UrlA) :> [image |-> DataUrl(Extracted(Served(UrlA))), timestamp |-> TickMs, url |-> UrlA])
JunkSeed == (CacheKey(UrlA) :> [image |-> JunkString, timestamp |-> TickMs, url |-> UrlA])
EmptySeed == (CacheKey(UrlA) :> [image |-> EmptyString, timestamp |-> TickMs, url |-> UrlA])
NumberSeed == (CacheKey(UrlC) :> [image |-> NotAString, timestamp |-> TickMs, url |-> UrlC])

CacheSeeds == {<<>>, SoundSeed, JunkSeed}
AllCacheSeeds == CacheSeeds \cup {EmptySeed, NumberSeed}

InitStorages == {c @@ s : c \in Credentials, s \in CacheSeeds}
AllInitStorages == {c @@ s : c \in Credentials, s \in AllCacheSeeds}

\* No sweep in progress, and a tab that has not asked for an extraction
NoSweep == [pc |-> "idle", keys |-> {}, maxAge |-> 0]
Workers == {"tab1", "tab2"}
NoWorker == [pc |-> "idle", raw |-> Null, pending |-> Null, result |-> "none", clean |-> TRUE]

\* MIME types, as the tokens of their text
Mime(type, subtype) == <<type, subtype>>
NoMime == <<>>
\* convertUrlToBase64 not called yet
NoFetch == [called |-> FALSE, ok |-> FALSE, contentType |-> NoMime, pathname |-> "",
            threw |-> FALSE, result |-> [tag |-> NoMime, bytes |-> ""]]

\* this.savedProducts = [] in the constructor, nothing stored, no load in progress
NoSaved == [list |-> <<>>, stored |-> <<>>, hasStored |-> FALSE,
            loading |-> FALSE, snapshot |-> <<>>, hasSnapshot |-> FALSE,
            met |-> 0, removals |-> 0,
            last |-> [op |-> "none", image |-> 0, before |-> <<>>, saved |-> FALSE]]

\* No call of generateUrlHash looked at on its own
NoHash == [url |-> NotAString, calls |-> 0, key |-> <<>>, again |-> <<>>]

\* The request ids sendMessageWithTimeout may generate, and no id
RequestIds == {"req_1", "req_2"}
NoId == ""
\* The content script after its constructor: this.processedRequests = new Set()
NewPage == [processed |-> {}, generated |-> {}, waiting |-> {}, timers |-> {},
            count |-> [id \in RequestIds |-> 0], cleaned |-> [id \in RequestIds |-> 0],
            delivered |-> 0,
            last |-> [source |-> "", requestId |-> NoId, type |-> "", dispatched |-> FALSE]]

\* sendResponse not called yet; preloadProductImages not called yet
NoReply == [type |-> "none", success |-> FALSE, before |-> <<>>, results |-> <<>>]
NoPreload == [pc |-> "idle", urls |-> <<>>, i |-> 0, image |-> Null, results |-> <<>>]

\* No handler started for a tab
NoHandler == [pc |-> "idle", tabId |-> "", products |-> <<>>, userImage |-> Null,
              baseRef |-> Null, idx |-> 0, current |-> Null, itemImg |-> Null,
              raw |-> Null, pending |-> Null]

\* The content script has reported nothing and displayed nothing
NoTryOn == [failed |-> FALSE, delivered |-> 0, shown |-> <<>>]

\* const productImages = []; const productNames = []; no call issued
NoSingle == [images |-> <<>>, names |-> <<>>, calls |-> <<>>]

\* No response parsed yet
NoParse == [called |-> FALSE, resp |-> [ok |-> FALSE, image |-> Null, text |-> Null],
            fetchRef |-> Null, result |-> Null, error |-> ""]

NoRequest == [hasProducts |-> FALSE, products |-> <<>>, userImage |-> Null]
NoRet == [op |-> "none", url |-> Null, hit |-> FALSE, entry |-> NoEntry,
          before |-> <<>>, at |-> 0, maxAge |-> 0, threw |-> FALSE]

BackgroundIdle ==
  /\ now = TickMs
  /\ ret = NoRet
  /\ lastIO = NoIO
  /\ pc = "idle"
  /\ req = NoRequest
  /\ apiKey = Null
  /\ baseRef = Null
  /\ idx = 0
  /\ current = Null
  /\ itemImg = Null
  /\ rawImg = Null
  /\ pending = Null
  /\ via = "none"
  /\ composeLog = <<>>
  /\ nExtract = 0
  /\ nFetch = 0
  /\ hits = 0
  /\ healthy = TRUE
  /\ failedItem = 0
  /\ failCause = "none"
  /\ sent = <<>>
  /\ sweep = NoSweep
  /\ workers = [w \in Workers |-> NoWorker]
  /\ fetched = NoFetch
  /\ parsed = NoParse
  /\ single = NoSingle
  /\ tryOn = NoTryOn
  /\ tabs = [t \in Workers |-> NoHandler]
  /\ outbox = [t \in Workers |-> <<>>]
  /\ reply = NoReply
  /\ preload = NoPreload
  /\ page = NewPage

PageIdle == BackgroundIdle /\ hashed = NoHash

Idle == PageIdle /\ saved = NoSaved

Init == storage \in InitStorages /\ Idle

InitCache == storage \in AllInitStorages /\ Idle

-----------------------------------------------------------------------------
(* The operations of the content cache, each called on its own *)

\* The payloads the callers of cacheProductImage pass for url
PutImages(url) == {DataUrl(Served(url)), DataUrl(Extracted(Served(url)))}
MaxAges == {TickMs, DefaultMaxAge}

CallGet(url) ==
  \E getOk \in BOOLEAN, removeOk \in BOOLEAN :
    LET r == getCachedProductImage(storage, url, getOk, removeOk) IN
    /\ storage' = r.storage
    /\ lastIO' = r.io
    /\ ret' = [NoRet EXCEPT !.op = "get", !.url = url, !.hit = r.hit,
                            !.entry = r.entry, !.before = storage, !.at = now,
                            !.threw = getCachedProductImageThrows(r.io)]
    /\ UNCHANGED <<now, pipeVars, sharedVars>>

CallPut(url) ==
  \E image \in PutImages(url), setOk \in BOOLEAN :
    /\ storage' = cacheProductImage(storage, url, image, now, setOk)
    /\ lastIO' = [NoIO EXCEPT !.set = Outcome(setOk)]
    /\ ret' = [NoRet EXCEPT !.op = "put", !.url = url, !.before = storage, !.at = now,
                            !.entry = [image |-> image, timestamp |-> now, url |-> url],
                            !.threw = cacheProductImageThrows([NoIO EXCEPT !.set = Outcome(setOk)])]
    /\ UNCHANGED <<now, pipeVars, sharedVars>>

CallCleanup(maxAge) ==
  \E getOk \in BOOLEAN, removeOk \in BOOLEAN :
    /\ storage' = cleanupOldCachedImages(storage, now, maxAge, getOk, removeOk)
    /\ lastIO' = [NoIO EXCEPT !.get = Outcome(getOk),
                              !.remove = IF getOk /\ ExpiredKeys(storage, now, maxAge) # {}
                                         THEN Outcome(removeOk) ELSE "none"]
    /\ ret' = [NoRet EXCEPT !.op = "cleanup", !.before = storage, !.at = now,
                            !.maxAge = maxAge]
    /\ UNCHANGED <<now, pipeVars, sharedVars>>

CallClear ==
  \E getOk \in BOOLEAN, removeOk \in BOOLEAN :
    /\ storage' = clearProductImageCache(storage, getOk, removeOk)
    /\ lastIO' = [NoIO EXCEPT !.get = Outcome(getOk),
                              !.remove = IF getOk /\ ClearKeys(storage) # {}
                                         THEN Outcome(removeOk) ELSE "none"]
    /\ ret' = [NoRet EXCEPT !.op = "clear", !.before = storage, !.at = now]
    /\ UNCHANGED <<now, pipeVars, sharedVars>>

Tick ==
  /\ now < MaxTicks * TickMs
  /\ now' = now + TickMs
  /\ UNCHANGED <<storage, ret, lastIO, pipeVars, sharedVars>>

GetOp == \E url \in SourceUrls : CallGet(url)
PutOp == \E url \in SourceUrls : CallPut(url)
CleanupOp == \E maxAge \in MaxAges : CallCleanup(maxAge)

ClearOp == CallClear

NextCache == GetOp \/ PutOp \/ CleanupOp \/ ClearOp \/ Tick

SpecCache == InitCache /\ [][NextCache]_vars

-----------------------------------------------------------------------------
(* Requests, responses of the synthesis service, errors and messages *)

ProductA == [name |-> "A", image |-> UrlA]
ProductC == [name |-> "C", image |-> UrlC]
Products == {ProductA, ProductC}

ProductLists == UNION {[1..n -> Products] : n \in 0..MaxItems}

Requests ==
  {[hasProducts |-> TRUE, products |-> ps, userImage |-> u] :
      ps \in ProductLists, u \in {Null, RequestPhoto}}
  \cup {NoRequest}

\* message.content quoting a URL, and message.content without one
TextWithUrl(url) == [t |-> "string", scheme |-> "text", content |-> [k |-> "quote", url |-> url]]
TextWithoutUrl == [t |-> "string", scheme |-> "text", content |-> NoContent]

\* The responses of the chat completions endpoint to a call whose generated
\* image is img: a non-2xx status, or choices[0].message with images[0].image_url.url
\* (image) and content (text)
Responses(img) ==
  { [ok |-> FALSE, image |-> Null, text |-> Null],
    [ok |-> TRUE, image |-> DataUrl(img), text |-> TextWithUrl(RefUrl(img))],
    [ok |-> TRUE, image |-> RefUrl(img), text |-> TextWithUrl(RefUrl(img))],
    [ok |-> TRUE, image |-> JunkString, text |-> TextWithUrl(RefUrl(img))],
    [ok |-> TRUE, image |-> Null, text |-> TextWithUrl(RefUrl(img))],
    [ok |-> TRUE, image |-> Null, text |-> TextWithoutUrl],
    [ok |-> TRUE, image |-> Null, text |-> Null] }

Error(kind, item) == [kind |-> kind, item |-> item]
NoError == Error("", "")

SuccessMessage(image) == [type |-> "STYLE_ME_SUCCESS", generatedImage |-> image, error |-> NoError]
ErrorMessage(error) == [type |-> "STYLE_ME_ERROR", generatedImage |-> Null, error |-> error]

-----------------------------------------------------------------------------
(* Pieces of the handler's code *)

\* convertUrlToBase64, when the fetch succeeds: the data URL of what the reference serves
convertUrlToBase64(url) == DataUrl(Served(url))

\* products[i]
ProductAtReversed(products, i) == products[Len(products) - i]
ProductAt(products, i) == products[i + 1]

\* The two image parts of the composition request
ContentParts(base, image, product) ==
  [name |-> product.name, base |-> base, item |-> image]

\* The parsing of an ok response: the image given in it (direct), the reference
\* to fetch (fetch), or the error thrown
ParseResponse(resp) ==
  IF Truthy(resp.image) /\ StartsWithData(resp.image)
  THEN [kind |-> "direct", value |-> resp.image]
  ELSE IF Truthy(resp.image) /\ StartsWithHttp(resp.image)
  THEN [kind |-> "fetch", value |-> resp.image]
  ELSE IF resp.text = Null
  THEN [kind |-> "typeerror", value |-> Null]
  ELSE IF resp.text.content.k = "quote"
  THEN [kind |-> "fetch", value |-> resp.text.content.url]
  ELSE [kind |-> "noimage", value |-> Null]

\* retrieveStoredData
retrieveStoredData(st, getOk) ==
  LET has(k) == k \in DOMAIN st /\ Truthy(st[k].value) IN
  IF ~getOk THEN [ok |-> FALSE, error |-> Error("storage error", ""), apiKey |-> Null, userImage |-> Null]
  ELSE IF ~has(ApiKeyKey)
  THEN [ok |-> FALSE, error |-> Error("API key not found", ""), apiKey |-> Null, userImage |-> Null]
  ELSE IF ~has(UserImageKey)
  THEN [ok |-> FALSE, error |-> Error("User image not found", ""), apiKey |-> Null, userImage |-> Null]
  ELSE [ok |-> TRUE, error |-> NoError, apiKey |-> st[ApiKeyKey].value,
        userImage |-> st[UserImageKey].value]

\* data.userImage ?? storedData.userImage
CoalesceStored(a, b) == b
Coalesce(a, b) == IF a = Null THEN b ELSE a

\* if (cachedImage && cachedImage.image)
UseCachedNever(r) == FALSE
UseCached(r) == r.hit /\ Truthy(r.entry.image)

\* What handleStyleMeRequestWithData sends when generateOutfitImage resolves
OnResolvedThenCaught(generatedImage) ==
  <<SuccessMessage(generatedImage), ErrorMessage(Error("Failed to generate style", ""))>>
OnResolved(generatedImage) ==
  IF ~Truthy(generatedImage)
  THEN <<ErrorMessage(Error("Failed to generate outfit", ""))>>
  ELSE <<SuccessMessage(generatedImage)>>

\* What it sends when a step of its try block throws
OnRejected(error) == <<ErrorMessage(error)>>

\* Where the catch block around the extraction takes the handler
ExtractAborts == "done"
OnExtractError == "fallback"

\* currentBaseImageBase64 after a successful composition step
NextBaseKept(base, produced) == base
NextBase(base, produced) == produced

-----------------------------------------------------------------------------
(* The STYLE_ME_CLICKED handler: setupMessageListener,                       *)
(* handleStyleMeRequestWithData, generateOutfitImage and                     *)
(* extractActualProductImage, one action per awaited call                    *)

Product == ProductAt(req.products, idx)

\* The handler ends, sending msgs to the tab
Finish(msgs) ==
  /\ pc' = "done"
  /\ sent' = sent \o msgs

\* The item's image is resolved: on to its composition call
Resolved(image, how) ==
  /\ itemImg' = image
  /\ via' = how
  /\ rawImg' = Null
  /\ pending' = Null
  /\ pc' = "compose"

\* The composition step of the item succeeded with image produced
Advance(produced) ==
  /\ current' = NextBase(current, produced)
  /\ idx' = idx + 1
  /\ itemImg' = Null
  /\ via' = "none"
  /\ pending' = Null
  /\ pc' = IF idx + 1 < Len(req.products) THEN "lookup" ELSE "stats"

\* onMessage listener, message.type === 'STYLE_ME_CLICKED'
Receive ==
  /\ pc = "idle"
  /\ \E data \in Requests :
       /\ req' = data
       /\ pc' = IF data.hasProducts THEN "retrieve" ELSE "ignored"
  /\ apiKey' = Null /\ baseRef' = Null /\ idx' = 0 /\ current' = Null
  /\ itemImg' = Null /\ rawImg' = Null /\ pending' = Null /\ via' = "none"
  /\ composeLog' = <<>> /\ nExtract' = 0 /\ nFetch' = 0 /\ hits' = 0
  /\ healthy' = TRUE /\ failedItem' = 0 /\ failCause' = "none" /\ sent' = <<>>
  /\ lastIO' = NoIO
  /\ UNCHANGED <<sharedVars, storage, now, ret>>

\* await this.retrieveStoredData(), and the check of what it returned
Retrieve ==
  /\ pc = "retrieve"
  /\ \E getOk \in BOOLEAN :
       LET r == retrieveStoredData(storage, getOk) IN
       /\ lastIO' = [NoIO EXCEPT !.get = Outcome(getOk)]
       /\ IF ~r.ok
          THEN Finish(OnRejected(r.error)) /\ UNCHANGED <<apiKey, baseRef>>
          ELSE IF ~Truthy(r.apiKey) \/ ~Truthy(r.userImage)
          THEN Finish(<<ErrorMessage(Error("Missing API key or user image", ""))>>)
               /\ UNCHANGED <<apiKey, baseRef>>
          ELSE /\ apiKey' = r.apiKey
               /\ baseRef' = Coalesce(req.userImage, r.userImage)
               /\ pc' = "fetchBase"
               /\ UNCHANGED sent
  /\ UNCHANGED <<sharedVars, storage, now, ret, req, idx, current, itemImg, rawImg, pending, via,
                 composeLog, nExtract, nFetch, hits, healthy, failedItem, failCause>>

\* let currentBaseImageBase64 = await convertUrlToBase64(inputImageUrl)
FetchBaseCached ==
  /\ pc = "fetchBase"
  /\ nFetch' = nFetch + 1
  /\ lastIO' = NoIO
  /\ current' = convertUrlToBase64(baseRef)
  /\ storage' = cacheProductImage(storage, Url(<<0>>), convertUrlToBase64(baseRef), now, TRUE)
  /\ pc' = IF Len(req.products) > 0 THEN "lookup" ELSE "stats"
  /\ UNCHANGED <<sharedVars, now, ret, req, apiKey, baseRef, idx, itemImg, rawImg, pending,
                 via, composeLog, nExtract, hits, failedItem, failCause, sent, healthy>>
FetchBase ==
  /\ pc = "fetchBase"
  /\ nFetch' = nFetch + 1
  /\ lastIO' = NoIO
  /\ \E ok \in BOOLEAN :
       IF ok
       THEN /\ current' = convertUrlToBase64(baseRef)
            /\ pc' = IF Len(req.products) > 0 THEN "lookup" ELSE "stats"
            /\ UNCHANGED <<sent, healthy>>
       ELSE /\ Finish(OnRejected(Error("Failed to fetch image", "")))
            /\ healthy' = FALSE
            /\ UNCHANGED current
  /\ UNCHANGED <<sharedVars, storage, now, ret, req, apiKey, baseRef, idx, itemImg, rawImg, pending,
                 via, composeLog, nExtract, hits, failedItem, failCause>>

\* generateOutfitImage: const cachedImage = await getCachedProductImage(product.image)
Lookup ==
  /\ pc = "lookup"
  /\ \E getOk \in BOOLEAN, removeOk \in BOOLEAN :
       LET r == getCachedProductImage(storage, Product.image, getOk, removeOk) IN
       /\ storage' = r.storage
       /\ lastIO' = r.io
       /\ IF UseCached(r)
          THEN Resolved(r.entry.image, "cache") /\ hits' = hits + 1
          ELSE pc' = "exLookup" /\ UNCHANGED <<itemImg, via, hits, rawImg, pending>>
  /\ UNCHANGED <<sharedVars, now, ret, req, apiKey, baseRef, idx, current,
                 composeLog, nExtract, nFetch, healthy, failedItem, failCause, sent>>

\* extractActualProductImage: const cachedImage = await getCachedProductImage(productImageUrl)
ExLookup ==
  /\ pc = "exLookup"
  /\ \E getOk \in BOOLEAN, removeOk \in BOOLEAN :
       LET r == getCachedProductImage(storage, Product.image, getOk, removeOk) IN
       /\ storage' = r.storage
       /\ lastIO' = r.io
       /\ IF UseCached(r)
          THEN Resolved(r.entry.image, "extractCache") /\ hits' = hits + 1
          ELSE pc' = "exFetch" /\ UNCHANGED <<itemImg, via, hits, rawImg, pending>>
  /\ UNCHANGED <<sharedVars, now, ret, req, apiKey, baseRef, idx, current,
                 composeLog, nExtract, nFetch, healthy, failedItem, failCause, sent>>

\* extractActualProductImage: const productImageBase64 = await convertUrlToBase64(productImageUrl)
ExFetch ==
  /\ pc = "exFetch"
  /\ nFetch' = nFetch + 1
  /\ lastIO' = NoIO
  /\ \E ok \in BOOLEAN :
       IF ok
       THEN /\ rawImg' = convertUrlToBase64(Product.image)
            /\ pc' = "exPutRaw"
            /\ UNCHANGED healthy
       ELSE /\ pc' = OnExtractError
            /\ healthy' = FALSE
            /\ UNCHANGED rawImg
  /\ UNCHANGED <<sharedVars, storage, now, ret, req, apiKey, baseRef, idx, current, itemImg, pending,
                 via, composeLog, nExtract, hits, failedItem, failCause, sent>>

\* extractActualProductImage: await cacheProductImage(productImageUrl, productImageBase64)
ExPutRawSkipped ==
  /\ pc = "exPutRaw"
  /\ lastIO' = [NoIO EXCEPT !.set = "ok"]
  /\ pc' = "exCall"
  /\ UNCHANGED <<sharedVars, storage, now, ret, req, apiKey, baseRef, idx, current, itemImg,
                 rawImg, pending, via, composeLog, nExtract, nFetch, hits, healthy,
                 failedItem, failCause, sent>>
ExPutRaw ==
  /\ pc = "exPutRaw"
  /\ \E setOk \in BOOLEAN :
       /\ storage' = cacheProductImage(storage, Product.image, rawImg, now, setOk)
       /\ lastIO' = [NoIO EXCEPT !.set = Outcome(setOk)]
  /\ pc' = "exCall"
  /\ UNCHANGED <<sharedVars, now, ret, req, apiKey, baseRef, idx, current, itemImg, rawImg, pending,
                 via, composeLog, nExtract, nFetch, hits, healthy, failedItem, failCause, sent>>

\* extractActualProductImage: the call of the endpoint and the parsing of its response
ExCall ==
  /\ pc = "exCall"
  /\ nExtract' = nExtract + 1
  /\ lastIO' = NoIO
  /\ \E resp \in Responses(Extracted(rawImg.content)) :
       LET p == ParseResponse(resp) IN
       IF resp.ok /\ p.kind = "direct"
       THEN pending' = p.value /\ pc' = "exPutFinal" /\ UNCHANGED healthy
       ELSE IF resp.ok /\ p.kind = "fetch"
       THEN pending' = p.value /\ pc' = "exRef" /\ UNCHANGED healthy
       ELSE pc' = OnExtractError /\ healthy' = FALSE /\ UNCHANGED pending
  /\ UNCHANGED <<sharedVars, storage, now, ret, req, apiKey, baseRef, idx, current, itemImg, rawImg,
                 via, composeLog, nFetch, hits, failedItem, failCause, sent>>

\* extractActualProductImage: const base64Image = await convertUrlToBase64(imageUrl)
ExRef ==
  /\ pc = "exRef"
  /\ nFetch' = nFetch + 1
  /\ lastIO' = NoIO
  /\ \E ok \in BOOLEAN :
       IF ok
       THEN pending' = convertUrlToBase64(pending) /\ pc' = "exPutFinal" /\ UNCHANGED healthy
       ELSE pc' = OnExtractError /\ healthy' = FALSE /\ UNCHANGED pending
  /\ UNCHANGED <<sharedVars, storage, now, ret, req, apiKey, baseRef, idx, current, itemImg, rawImg,
                 via, composeLog, nExtract, hits, failedItem, failCause, sent>>

\* extractActualProductImage: await cacheProductImage(productImageUrl, <extracted>); return it
ExPutFinalRaw ==
  /\ pc = "exPutFinal"
  /\ \E setOk \in BOOLEAN :
       /\ storage' = cacheProductImage(storage, Product.image, pending, now, setOk)
       /\ lastIO' = [NoIO EXCEPT !.set = Outcome(setOk)]
  /\ Resolved(rawImg, "extract")
  /\ UNCHANGED <<sharedVars, now, ret, req, apiKey, baseRef, idx, current,
                 composeLog, nExtract, nFetch, hits, healthy, failedItem, failCause, sent>>
ExPutFinal ==
  /\ pc = "exPutFinal"
  /\ \E setOk \in BOOLEAN :
       /\ storage' = cacheProductImage(storage, Product.image, pending, now, setOk)
       /\ lastIO' = [NoIO EXCEPT !.set = Outcome(setOk)]
  /\ Resolved(pending, "extract")
  /\ UNCHANGED <<sharedVars, now, ret, req, apiKey, baseRef, idx, current,
                 composeLog, nExtract, nFetch, hits, healthy, failedItem, failCause, sent>>

\* catch (extractError): actualProductImageBase64 = await convertUrlToBase64(product.image)
FallbackSkipsItem ==
  /\ pc = "fallback"
  /\ nFetch' = nFetch + 1
  /\ lastIO' = NoIO
  /\ \E ok \in BOOLEAN :
       IF ok
       THEN Resolved(convertUrlToBase64(Product.image), "fallback")
            /\ UNCHANGED <<sent, healthy, idx>>
       ELSE /\ idx' = idx + 1
            /\ pc' = IF idx + 1 < Len(req.products) THEN "lookup" ELSE "stats"
            /\ healthy' = FALSE
            /\ UNCHANGED <<itemImg, via, rawImg, pending, sent>>
  /\ UNCHANGED <<sharedVars, storage, now, ret, req, apiKey, baseRef, current,
                 composeLog, nExtract, hits, failedItem, failCause>>
Fallback ==
  /\ pc = "fallback"
  /\ nFetch' = nFetch + 1
  /\ lastIO' = NoIO
  /\ \E ok \in BOOLEAN :
       IF ok
       THEN Resolved(convertUrlToBase64(Product.image), "fallback") /\ UNCHANGED <<sent, healthy>>
       ELSE /\ Finish(OnRejected(Error("Failed to fetch image", "")))
            /\ healthy' = FALSE
            /\ UNCHANGED <<itemImg, via, rawImg, pending>>
  /\ UNCHANGED <<sharedVars, storage, now, ret, req, apiKey, baseRef, idx, current,
                 composeLog, nExtract, hits, failedItem, failCause>>

\* generateOutfitImage: the composition call for products[i] and the parsing of its response
Compose ==
  /\ pc = "compose"
  /\ lastIO' = NoIO
  /\ LET parts == ContentParts(current, itemImg, Product)
         call == [name |-> parts.name, base |-> parts.base, item |-> parts.item,
                  via |-> via, out |-> Null]
     IN \E resp \in Responses(Composed(parts.base.content, parts.item.content)) :
       LET p == ParseResponse(resp) IN
       IF resp.ok /\ p.kind = "direct"
       THEN /\ Advance(p.value)
            /\ composeLog' = Append(composeLog, [call EXCEPT !.out = p.value])
            /\ UNCHANGED <<healthy, failedItem, failCause, sent>>
       ELSE IF resp.ok /\ p.kind = "fetch"
       THEN /\ pending' = p.value
            /\ pc' = "compRef"
            /\ composeLog' = Append(composeLog, call)
            /\ UNCHANGED <<current, idx, itemImg, via, healthy, failedItem, failCause, sent>>
       ELSE /\ Finish(OnRejected(
                 IF ~resp.ok THEN Error("OpenRouter API Error", Product.name)
                 ELSE IF p.kind = "typeerror" THEN Error("TypeError", "")
                 ELSE Error("Failed to generate image", Product.name)))
            /\ composeLog' = Append(composeLog, call)
            /\ failedItem' = idx + 1
            /\ failCause' = IF ~resp.ok THEN "status" ELSE p.kind
            /\ healthy' = FALSE
            /\ UNCHANGED <<current, idx, pending, itemImg, via>>
  /\ UNCHANGED <<sharedVars, storage, now, ret, req, apiKey, baseRef, rawImg,
                 nExtract, nFetch, hits>>

\* generateOutfitImage: currentBaseImageBase64 = await convertUrlToBase64(imageUrl)
CompRef ==
  /\ pc = "compRef"
  /\ nFetch' = nFetch + 1
  /\ lastIO' = NoIO
  /\ \E ok \in BOOLEAN :
       IF ok
       THEN /\ Advance(convertUrlToBase64(pending))
            /\ composeLog' = [composeLog EXCEPT ![Len(composeLog)].out =
                                convertUrlToBase64(pending)]
            /\ UNCHANGED <<healthy, failedItem, failCause, sent>>
       ELSE /\ Finish(OnRejected(Error("Failed to fetch image", "")))
            /\ failedItem' = idx + 1
            /\ failCause' = "fetch"
            /\ healthy' = FALSE
            /\ UNCHANGED <<current, idx, composeLog, itemImg, via, pending>>
  /\ UNCHANGED <<sharedVars, storage, now, ret, req, apiKey, baseRef, rawImg,
                 nExtract, hits>>

\* generateOutfitImage: const cacheInfo = await getCacheInfo(); return currentBaseImageBase64,
\* and what handleStyleMeRequestWithData does with the outcome
Stats ==
  /\ pc = "stats"
  /\ \E getOk \in BOOLEAN :
       /\ lastIO' = [NoIO EXCEPT !.get = Outcome(getOk)]
       /\ IF getOk
          THEN Finish(OnResolved(current))
          ELSE Finish(OnRejected(Error("storage error", "")))
  /\ UNCHANGED <<sharedVars, storage, now, ret, req, apiKey, baseRef, idx, current, itemImg, rawImg,
                 pending, via, composeLog, nExtract, nFetch, hits, healthy, failedItem, failCause>>

Next ==
  \/ Receive \/ Retrieve \/ FetchBase \/ Lookup \/ ExLookup \/ ExFetch \/ ExPutRaw
  \/ ExCall \/ ExRef \/ ExPutFinal \/ Fallback \/ Compose \/ CompRef \/ Stats

Spec == Init /\ [][Next]_vars

\* The steps of a request once it is received: every awaited call resolves or rejects
HandlerStep ==
  \/ Retrieve \/ FetchBase \/ Lookup \/ ExLookup \/ ExFetch \/ ExPutRaw
  \/ ExCall \/ ExRef \/ ExPutFinal \/ Fallback \/ Compose \/ CompRef \/ Stats

SpecLive == Init /\ [][Next]_vars /\ WF_vars(HandlerStep)

\* The positions of the loop body of generateOutfitImage (and of the
\* extractActualProductImage call inside it): the steps of one item
ItemSteps == {"lookup", "exLookup", "exFetch", "exPutRaw", "exCall", "exRef",
              "exPutFinal", "fallback", "compose", "compRef"}

\* The operation the handler is suspended on at each position.  Every remote
\* and storage call of the pipeline is awaited before the next one is made.
Op(kind, item) == [kind |-> kind, item |-> item]
InFlightDetached ==
  IF pc = "exCall" THEN {Op("storage.set", idx + 1), Op("synthesis", idx + 1)}
  ELSE IF pc = "lookup" /\ idx > 0 THEN {Op("synthesis", idx), Op("storage.get", idx + 1)}
  ELSE {}
InFlight ==
  IF pc \in {"lookup", "exLookup"} THEN {Op("storage.get", idx + 1)}
  ELSE IF pc \in {"exPutRaw", "exPutFinal"} THEN {Op("storage.set", idx + 1)}
  ELSE IF pc \in {"exFetch", "exRef", "fallback", "compRef"} THEN {Op("fetch", idx + 1)}
  ELSE IF pc \in {"exCall", "compose"} THEN {Op("synthesis", idx + 1)}
  ELSE IF pc = "fetchBase" THEN {Op("fetch", 0)}
  ELSE IF pc \in {"retrieve", "stats"} THEN {Op("storage.get", 0)}
  ELSE {}

\* The positions at which the handler awaits a remote call (fetch of an image,
\* or POST to the chat completions endpoint)
RemoteSteps == {"fetchBase", "exFetch", "exCall", "exRef", "fallback", "compose", "compRef"}

\* A remote endpoint that never responds: fetch is called with no signal and
\* no timer races it, so the awaited promise stays pending and the handler
\* never runs again
Hang ==
  /\ pc \in RemoteSteps
  /\ pc' = "hung"
  /\ UNCHANGED <<sharedVars, storage, now, ret, lastIO, req, apiKey, baseRef, idx, current, itemImg,
                 rawImg, pending, via, composeLog, nExtract, nFetch, hits, healthy,
                 failedItem, failCause, sent>>

NextHang == Next \/ Hang

SpecHang == Init /\ [][NextHang]_vars /\ WF_vars(HandlerStep)

-----------------------------------------------------------------------------
(* Concurrent activity on the cache: extractActualProductImage called for  *)
(* the same reference from two tabs, and the periodic expiry sweep, each   *)
(* suspended at its awaits while the others run                            *)

\* The reference both tabs ask for
SharedRef == UrlA

\* cleanupOldCachedImages up to its remove: the snapshot is read and the keys
\* to remove are collected from it
SweepRead ==
  /\ sweep.pc = "idle"
  /\ \E maxAge \in MaxAges, getOk \in BOOLEAN :
       LET keysToRemove == IF getOk THEN ExpiredKeys(storage, now, maxAge) ELSE {} IN
       sweep' = IF keysToRemove # {}
                THEN [pc |-> "remove", keys |-> keysToRemove, maxAge |-> maxAge]
                ELSE NoSweep
  /\ UNCHANGED <<storage, now, ret, lastIO, pipeVars, workers, auxVars>>

\* cleanupOldCachedImages: await chrome.storage.local.remove(keysToRemove)
SweepRemove ==
  /\ sweep.pc = "remove"
  /\ \E removeOk \in BOOLEAN :
       storage' = IF removeOk THEN StorageRemove(storage, sweep.keys) ELSE storage
  /\ sweep' = NoSweep
  /\ UNCHANGED <<now, ret, lastIO, pipeVars, workers, auxVars>>

\* Worker w moves on as rec, the rest of the state apart from the storage unchanged
Becomes(w, rec) ==
  /\ workers' = [workers EXCEPT ![w] = rec]
  /\ UNCHANGED <<now, ret, lastIO, pipeVars, sweep, auxVars>>
Ended(w, result) == [workers[w] EXCEPT !.pc = "done", !.result = result,
                                       !.raw = Null, !.pending = Null]

\* A tab's request reaches extractActualProductImage(apiKey, SharedRef, name)
WStart(w) ==
  /\ workers[w].pc = "idle"
  /\ Becomes(w, [workers[w] EXCEPT !.pc = "lookup"])
  /\ UNCHANGED storage

WLookup(w) ==
  /\ workers[w].pc = "lookup"
  /\ \E getOk \in BOOLEAN, removeOk \in BOOLEAN :
       LET r == getCachedProductImage(storage, SharedRef, getOk, removeOk)
           me == [workers[w] EXCEPT !.clean = @ /\ r.io.get = "ok" /\ r.io.remove # "fail"]
       IN /\ storage' = r.storage
          /\ IF UseCached(r)
             THEN Becomes(w, [me EXCEPT !.pc = "done", !.result = "cached"])
             ELSE Becomes(w, [me EXCEPT !.pc = "fetch"])

WFetch(w) ==
  /\ workers[w].pc = "fetch"
  /\ \E ok \in BOOLEAN :
       IF ok
       THEN Becomes(w, [workers[w] EXCEPT !.pc = "putRaw", !.raw = convertUrlToBase64(SharedRef)])
       ELSE Becomes(w, Ended(w, "failed"))
  /\ UNCHANGED storage

WPutRaw(w) ==
  /\ workers[w].pc = "putRaw"
  /\ \E setOk \in BOOLEAN :
       /\ storage' = cacheProductImage(storage, SharedRef, workers[w].raw, now, setOk)
       /\ Becomes(w, [workers[w] EXCEPT !.pc = "call", !.clean = @ /\ setOk])

WCall(w) ==
  /\ workers[w].pc = "call"
  /\ \E resp \in Responses(Extracted(workers[w].raw.content)) :
       LET p == ParseResponse(resp) IN
       IF resp.ok /\ p.kind = "direct"
       THEN Becomes(w, [workers[w] EXCEPT !.pc = "putFinal", !.pending = p.value])
       ELSE IF resp.ok /\ p.kind = "fetch"
       THEN Becomes(w, [workers[w] EXCEPT !.pc = "ref", !.pending = p.value])
       ELSE Becomes(w, Ended(w, "failed"))
  /\ UNCHANGED storage

WRef(w) ==
  /\ workers[w].pc = "ref"
  /\ \E ok \in BOOLEAN :
       IF ok
       THEN Becomes(w, [workers[w] EXCEPT !.pc = "putFinal",
                                          !.pending = convertUrlToBase64(workers[w].pending)])
       ELSE Becomes(w, Ended(w, "failed"))
  /\ UNCHANGED storage

WPutFinal(w) ==
  /\ workers[w].pc = "putFinal"
  /\ \E setOk \in BOOLEAN :
       /\ storage' = cacheProductImage(storage, SharedRef, workers[w].pending, now, setOk)
       /\ Becomes(w, [Ended(w, "extracted") EXCEPT !.clean = @ /\ setOk])

WorkerStep ==
  \E w \in Workers :
    \/ WStart(w) \/ WLookup(w) \/ WFetch(w) \/ WPutRaw(w)
    \/ WCall(w) \/ WRef(w) \/ WPutFinal(w)

NextShared == WorkerStep \/ SweepRead \/ SweepRemove \/ Tick

SpecShared == Init /\ [][NextShared]_vars

-----------------------------------------------------------------------------
(* The image fetcher on its own: how convertUrlToBase64 tags what it returns *)

\* The content-type headers a server may declare (null when it declares none)
\* and the endings of the URL's path
ContentTypes ==
  {NoMime, Mime("image", "jpeg"), Mime("image", "png"), Mime("image", "webp"),
   Mime("image", "gif"), Mime("image", "avif"), Mime("image", "svg+xml"),
   Mime("text", "html"), Mime("application", "json")}
Pathnames == {".jpg", ".jpeg", ".png", ".webp", ".gif", ".bmp", ""}

\* s.startsWith(prefix), on token sequences
StartsWith(s, prefix) ==
  Len(prefix) <= Len(s) /\ \A i \in 1..Len(prefix) : s[i] = prefix[i]

\* reader.result for a blob of the response: FileReader tags the data URL with
\* the blob's type, which is the declared content-type, or
\* application/octet-stream when there is none
readAsDataURL(contentType) ==
  [tag |-> IF contentType = NoMime THEN Mime("application", "octet-stream") ELSE contentType,
   bytes |-> "base64"]

\* let mimeType = response.headers.get('content-type'); if (!mimeType) { ... }
mimeTypeDeclaredOnly(contentType, pathname) == contentType
mimeTypeOf(contentType, pathname) ==
  IF contentType # NoMime THEN contentType
  ELSE IF pathname \in {".jpg", ".jpeg"} THEN Mime("image", "jpeg")
  ELSE IF pathname = ".png" THEN Mime("image", "png")
  ELSE IF pathname = ".webp" THEN Mime("image", "webp")
  ELSE IF pathname = ".gif" THEN Mime("image", "gif")
  ELSE Mime("image", "jpeg")

\* if (!base64.startsWith(`data:${mimeType}`)) result = base64.replace(/^data:.*?;base64,/, ...)
Retag(base64, mimeType) ==
  IF ~StartsWith(base64.tag, mimeType) THEN [base64 EXCEPT !.tag = mimeType] ELSE base64

\* One call of convertUrlToBase64(imageUrl) for a response with the given
\* status, declared content-type and URL path ending
FetchCall ==
  \E ok \in BOOLEAN, contentType \in ContentTypes, pathname \in Pathnames :
    /\ fetched' =
         IF ~ok
         THEN [NoFetch EXCEPT !.called = TRUE, !.contentType = contentType,
                              !.pathname = pathname, !.threw = TRUE]
         ELSE [NoFetch EXCEPT !.called = TRUE, !.ok = TRUE, !.contentType = contentType,
                              !.pathname = pathname,
                              !.result = Retag(readAsDataURL(contentType),
                                               mimeTypeOf(contentType, pathname))]
    /\ UNCHANGED <<storage, now, ret, lastIO, pipeVars, sweep, workers, parsed, single, scriptVars>>

NextFetch == FetchCall

SpecFetch == Init /\ [][NextFetch]_vars

-----------------------------------------------------------------------------
(* The single-call generateOutfitImage: the items are resolved by the same  *)
(* loop body (Lookup .. Fallback), their images are collected, and one call *)
(* composes them all.  The handler around it is the same.                   *)

pipeAux == <<sweep, workers, fetched, parsed, scriptVars>>

\* generateOutfitImage is entered: productImages and productNames are empty
\* and the loop over products starts; the base photo is not fetched yet
SEnter ==
  /\ pc = "fetchBase"
  /\ pc' = IF Len(req.products) > 0 THEN "lookup" ELSE "sBase"
  /\ lastIO' = NoIO
  /\ UNCHANGED <<pipeAux, single, storage, now, ret, req, apiKey, baseRef, idx, current,
                 itemImg, rawImg, pending, via, composeLog, nExtract, nFetch, hits,
                 healthy, failedItem, failCause, sent>>

\* productImages.push(actualProductImageBase64); productNames.push(product.name)
SPushFront ==
  /\ pc = "compose"
  /\ single' = [single EXCEPT !.images = <<itemImg>> \o @, !.names = <<Product.name>> \o @]
  /\ idx' = idx + 1
  /\ itemImg' = Null
  /\ via' = "none"
  /\ pc' = IF idx + 1 < Len(req.products) THEN "lookup" ELSE "sBase"
  /\ lastIO' = NoIO
  /\ UNCHANGED <<pipeAux, storage, now, ret, req, apiKey, baseRef, current, rawImg, pending,
                 composeLog, nExtract, nFetch, hits, healthy, failedItem, failCause, sent>>
SPush ==
  /\ pc = "compose"
  /\ single' = [single EXCEPT !.images = Append(@, itemImg), !.names = Append(@, Product.name)]
  /\ idx' = idx + 1
  /\ itemImg' = Null
  /\ via' = "none"
  /\ pc' = IF idx + 1 < Len(req.products) THEN "lookup" ELSE "sBase"
  /\ lastIO' = NoIO
  /\ UNCHANGED <<pipeAux, storage, now, ret, req, apiKey, baseRef, current, rawImg, pending,
                 composeLog, nExtract, nFetch, hits, healthy, failedItem, failCause, sent>>

\* contentParts: url: await convertUrlToBase64(inputImageUrl)
SBase ==
  /\ pc = "sBase"
  /\ nFetch' = nFetch + 1
  /\ lastIO' = NoIO
  /\ \E ok \in BOOLEAN :
       IF ok
       THEN /\ current' = convertUrlToBase64(baseRef)
            /\ pc' = "sCall"
            /\ UNCHANGED <<sent, healthy>>
       ELSE /\ Finish(OnRejected(Error("Failed to fetch image", "")))
            /\ healthy' = FALSE
            /\ UNCHANGED current
  /\ UNCHANGED <<pipeAux, single, storage, now, ret, req, apiKey, baseRef, idx, itemImg,
                 rawImg, pending, via, composeLog, nExtract, hits, failedItem, failCause>>

\* The image parts of the one request: the base photo, then productImages in order
SingleParts(base, images) == <<base>> \o images

\* The call of the endpoint with all the items, and the parsing of its response
SCall ==
  /\ pc = "sCall"
  /\ lastIO' = NoIO
  /\ LET parts == SingleParts(current, single.images)
         call == [names |-> single.names, parts |-> parts]
     IN /\ single' = [single EXCEPT !.calls = Append(@, call)]
        /\ \E resp \in Responses(Composed(current.content,
                                           [i \in 1..Len(single.images) |-> single.images[i].content])) :
             LET p == ParseResponse(resp) IN
             IF resp.ok /\ p.kind = "direct"
             THEN /\ current' = p.value
                  /\ Finish(OnResolved(p.value))
                  /\ UNCHANGED <<pending, healthy, failCause>>
             ELSE IF resp.ok /\ p.kind = "fetch"
             THEN /\ pending' = p.value
                  /\ pc' = "sRef"
                  /\ UNCHANGED <<current, healthy, failCause, sent>>
             ELSE /\ Finish(OnRejected(
                       IF ~resp.ok THEN Error("OpenRouter API Error", "")
                       ELSE IF p.kind = "typeerror" THEN Error("TypeError", "")
                       ELSE Error("Failed to generate outfit image", "")))
                  /\ failCause' = IF ~resp.ok THEN "status" ELSE p.kind
                  /\ healthy' = FALSE
                  /\ UNCHANGED <<current, pending>>
  /\ UNCHANGED <<pipeAux, storage, now, ret, req, apiKey, baseRef, idx, itemImg, rawImg, via,
                 composeLog, nExtract, nFetch, hits, failedItem>>

\* return await convertUrlToBase64(imageUrl)
SRef ==
  /\ pc = "sRef"
  /\ nFetch' = nFetch + 1
  /\ lastIO' = NoIO
  /\ \E ok \in BOOLEAN :
       IF ok
       THEN /\ current' = convertUrlToBase64(pending)
            /\ Finish(OnResolved(convertUrlToBase64(pending)))
            /\ UNCHANGED <<healthy, failCause>>
       ELSE /\ Finish(OnRejected(Error("Failed to fetch image", "")))
            /\ failCause' = "fetch"
            /\ healthy' = FALSE
            /\ UNCHANGED current
  /\ UNCHANGED <<pipeAux, single, storage, now, ret, req, apiKey, baseRef, idx, itemImg,
                 rawImg, pending, via, composeLog, nExtract, hits, failedItem>>

NextSingle ==
  \/ Receive \/ Retrieve \/ SEnter \/ Lookup \/ ExLookup \/ ExFetch \/ ExPutRaw
  \/ ExCall \/ ExRef \/ ExPutFinal \/ Fallback \/ SPush \/ SBase \/ SCall \/ SRef

SpecSingle == Init /\ [][NextSingle]_vars

-----------------------------------------------------------------------------
(* The content script's side of a try-on request: handleTryOnSelectedProducts *)
(* awaits sendMessageWithTimeout while the background handler runs, and the    *)
(* content script's listener displays what the background sends to the tab.    *)

\* handleTryOnSelectedProducts: the await of sendMessageWithTimeout ends.  The
\* background listener returns true for STYLE_ME_CLICKED and never calls
\* sendResponse, so the race ends with the timer's rejection, or with the
\* channel closing with no response; both reach the catch block, which shows
\* the failure toast.
CsWaitEnds ==
  /\ pc \notin {"idle", "ignored"}
  /\ Len(req.products) > 0
  /\ ~tryOn.failed
  /\ tryOn' = [tryOn EXCEPT !.failed = TRUE, !.shown = Append(@, "failed")]
  /\ UNCHANGED <<storage, now, ret, lastIO, pipeVars, sweep, workers, fetched, parsed, single,
                 tabs, outbox, reply, preload, page, saved, hashed>>

\* The content script's onMessage listener receives the next message the
\* background sent to the tab: handleStyleSuccess / handleStyleError
CsDeliver ==
  /\ tryOn.delivered < Len(sent)
  /\ LET m == sent[tryOn.delivered + 1] IN
     tryOn' = [tryOn EXCEPT !.delivered = @ + 1,
                            !.shown = Append(@, IF m.type = "STYLE_ME_SUCCESS"
                                                THEN "result" ELSE "error")]
  /\ UNCHANGED <<storage, now, ret, lastIO, pipeVars, sweep, workers, fetched, parsed, single,
                 tabs, outbox, reply, preload, page, saved, hashed>>

NextTryOn == Next \/ CsWaitEnds \/ CsDeliver

SpecTryOn == Init /\ [][NextTryOn]_vars

-----------------------------------------------------------------------------
(* Requests of several tabs in progress at once: each STYLE_ME_CLICKED      *)
(* message starts its own call of handleStyleMeRequestWithData(data,        *)
(* sender.tab.id), whose awaits interleave with those of the other calls.   *)
(* The code of a handler is that of Receive .. Stats, on its own locals.    *)

ProductB == [name |-> "B", image |-> UrlB]
TabPhoto(t) == DataUrl([k |-> "photo", id |-> t])

\* What the content script of tab t may send
TabRequests(t) ==
  IF t = "tab1"
  THEN {[products |-> <<ProductA>>, userImage |-> Null],
        [products |-> <<ProductC, ProductA>>, userImage |-> TabPhoto(t)]}
  ELSE {[products |-> <<ProductB>>, userImage |-> TabPhoto(t)],
        [products |-> <<ProductC>>, userImage |-> Null]}

otherVars == <<now, ret, lastIO, pipeVars, sweep, workers, fetched, parsed, single, tryOn,
               reply, preload, page, saved, hashed>>

\* Handler t goes on as h
TGoes(t, h) == tabs' = [tabs EXCEPT ![t] = h] /\ UNCHANGED outbox
\* Handler t ends: sendSuccessToTab(tabId, image) / sendErrorToTab(tabId, message)
TEnds(t, type, image) ==
  /\ tabs' = [tabs EXCEPT ![t].pc = "done"]
  /\ outbox' = [outbox EXCEPT ![tabs[t].tabId] =
                   Append(@, [type |-> type, from |-> t, image |-> image])]
TProduct(t) == ProductAt(tabs[t].products, tabs[t].idx)
\* The item's image is resolved / the item's composition step is done
TResolved(t, image) == [tabs[t] EXCEPT !.itemImg = image, !.raw = Null, !.pending = Null,
                                       !.pc = "compose"]
TAdvance(t, produced) ==
  [tabs[t] EXCEPT !.current = NextBase(@, produced), !.idx = @ + 1, !.itemImg = Null,
                  !.pending = Null,
                  !.pc = IF tabs[t].idx + 1 < Len(tabs[t].products) THEN "lookup" ELSE "stats"]

TReceive(t) ==
  /\ tabs[t].pc = "idle"
  /\ \E data \in TabRequests(t) :
       TGoes(t, [NoHandler EXCEPT !.pc = "retrieve", !.tabId = t,
                                  !.products = data.products, !.userImage = data.userImage])
  /\ UNCHANGED <<storage, otherVars>>

TRetrieve(t) ==
  /\ tabs[t].pc = "retrieve"
  /\ \E getOk \in BOOLEAN :
       LET r == retrieveStoredData(storage, getOk) IN
       IF ~r.ok \/ ~Truthy(r.apiKey) \/ ~Truthy(r.userImage)
       THEN TEnds(t, "STYLE_ME_ERROR", Null)
       ELSE TGoes(t, [tabs[t] EXCEPT !.baseRef = Coalesce(tabs[t].userImage, r.userImage),
                                     !.pc = "fetchBase"])
  /\ UNCHANGED <<storage, otherVars>>

TFetchBase(t) ==
  /\ tabs[t].pc = "fetchBase"
  /\ \E ok \in BOOLEAN :
       IF ok
       THEN TGoes(t, [tabs[t] EXCEPT !.current = convertUrlToBase64(tabs[t].baseRef),
                                     !.pc = IF Len(tabs[t].products) > 0 THEN "lookup" ELSE "stats"])
       ELSE TEnds(t, "STYLE_ME_ERROR", Null)
  /\ UNCHANGED <<storage, otherVars>>

TLookup(t) ==
  /\ tabs[t].pc \in {"lookup", "exLookup"}
  /\ \E getOk \in BOOLEAN, removeOk \in BOOLEAN :
       LET r == getCachedProductImage(storage, TProduct(t).image, getOk, removeOk) IN
       /\ storage' = r.storage
       /\ IF UseCached(r)
          THEN TGoes(t, TResolved(t, r.entry.image))
          ELSE TGoes(t, [tabs[t] EXCEPT !.pc = IF @ = "lookup" THEN "exLookup" ELSE "exFetch"])
  /\ UNCHANGED otherVars

TExFetch(t) ==
  /\ tabs[t].pc = "exFetch"
  /\ \E ok \in BOOLEAN :
       IF ok
       THEN TGoes(t, [tabs[t] EXCEPT !.raw = convertUrlToBase64(TProduct(t).image),
                                     !.pc = "exPutRaw"])
       ELSE TGoes(t, [tabs[t] EXCEPT !.pc = OnExtractError])
  /\ UNCHANGED <<storage, otherVars>>

TExPutRaw(t) ==
  /\ tabs[t].pc = "exPutRaw"
  /\ \E setOk \in BOOLEAN :
       storage' = cacheProductImage(storage, TProduct(t).image, tabs[t].raw, now, setOk)
  /\ TGoes(t, [tabs[t] EXCEPT !.pc = "exCall"])
  /\ UNCHANGED otherVars

TExCall(t) ==
  /\ tabs[t].pc = "exCall"
  /\ \E resp \in Responses(Extracted(tabs[t].raw.content)) :
       LET p == ParseResponse(resp) IN
       IF resp.ok /\ p.kind = "direct"
       THEN TGoes(t, [tabs[t] EXCEPT !.pending = p.value, !.pc = "exPutFinal"])
       ELSE IF resp.ok /\ p.kind = "fetch"
       THEN TGoes(t, [tabs[t] EXCEPT !.pending = p.value, !.pc = "exRef"])
       ELSE TGoes(t, [tabs[t] EXCEPT !.pc = OnExtractError])
  /\ UNCHANGED <<storage, otherVars>>

TExRef(t) ==
  /\ tabs[t].pc = "exRef"
  /\ \E ok \in BOOLEAN :
       IF ok
       THEN TGoes(t, [tabs[t] EXCEPT !.pending = convertUrlToBase64(@), !.pc = "exPutFinal"])
       ELSE TGoes(t, [tabs[t] EXCEPT !.pc = OnExtractError])
  /\ UNCHANGED <<storage, otherVars>>

TExPutFinal(t) ==
  /\ tabs[t].pc = "exPutFinal"
  /\ \E setOk \in BOOLEAN :
       storage' = cacheProductImage(storage, TProduct(t).image, tabs[t].pending, now, setOk)
  /\ TGoes(t, TResolved(t, tabs[t].pending))
  /\ UNCHANGED otherVars

TFallback(t) ==
  /\ tabs[t].pc = "fallback"
  /\ \E ok \in BOOLEAN :
       IF ok
       THEN TGoes(t, TResolved(t, convertUrlToBase64(TProduct(t).image)))
       ELSE TEnds(t, "STYLE_ME_ERROR", Null)
  /\ UNCHANGED <<storage, otherVars>>

TCompose(t) ==
  /\ tabs[t].pc = "compose"
  /\ LET parts == ContentParts(tabs[t].current, tabs[t].itemImg, TProduct(t)) IN
     \E resp \in Responses(Composed(parts.base.content, parts.item.content)) :
       LET p == ParseResponse(resp) IN
       IF resp.ok /\ p.kind = "direct"
       THEN TGoes(t, TAdvance(t, p.value))
       ELSE IF resp.ok /\ p.kind = "fetch"
       THEN TGoes(t, [tabs[t] EXCEPT !.pending = p.value, !.pc = "compRef"])
       ELSE TEnds(t, "STYLE_ME_ERROR", Null)
  /\ UNCHANGED <<storage, otherVars>>

TCompRef(t) ==
  /\ tabs[t].pc = "compRef"
  /\ \E ok \in BOOLEAN :
       IF ok
       THEN TGoes(t, TAdvance(t, convertUrlToBase64(tabs[t].pending)))
       ELSE TEnds(t, "STYLE_ME_ERROR", Null)
  /\ UNCHANGED <<storage, otherVars>>

TStats(t) ==
  /\ tabs[t].pc = "stats"
  /\ \E getOk \in BOOLEAN :
       IF getOk /\ Truthy(tabs[t].current)
       THEN TEnds(t, "STYLE_ME_SUCCESS", tabs[t].current)
       ELSE TEnds(t, "STYLE_ME_ERROR", Null)
  /\ UNCHANGED <<storage, otherVars>>

TabStep ==
  \E t \in Workers :
    \/ TReceive(t) \/ TRetrieve(t) \/ TFetchBase(t) \/ TLookup(t) \/ TExFetch(t)
    \/ TExPutRaw(t) \/ TExCall(t) \/ TExRef(t) \/ TExPutFinal(t) \/ TFallback(t)
    \/ TCompose(t) \/ TCompRef(t) \/ TStats(t)

NextTabs == TabStep

SpecTabs == Init /\ [][NextTabs]_vars

-----------------------------------------------------------------------------
(* The cache messages of the background listener: CLEAR_PRODUCT_CACHE and   *)
(* PRELOAD_PRODUCT_IMAGES                                                   *)

msgOther == <<now, ret, pipeVars, sweep, workers, fetched, parsed, single, tryOn, tabs, outbox,
              page, saved, hashed>>

\* Whether clearProductImageCache rejects when a storage call of its rejected:
\* its catch block logs the error and returns
clearProductImageCacheThrows(io) == FALSE

\* message.type === 'CLEAR_PRODUCT_CACHE': clearProductImageCache().then(..).catch(..)
OnClearMessage ==
  \E getOk \in BOOLEAN, removeOk \in BOOLEAN :
    LET io == [NoIO EXCEPT !.get = Outcome(getOk),
                           !.remove = IF getOk /\ ClearKeys(storage) # {}
                                      THEN Outcome(removeOk) ELSE "none"]
    IN /\ storage' = clearProductImageCache(storage, getOk, removeOk)
       /\ lastIO' = io
       /\ reply' = [NoReply EXCEPT !.type = "CLEAR_PRODUCT_CACHE",
                                   !.success = ~clearProductImageCacheThrows(io),
                                   !.before = storage]
       /\ UNCHANGED <<msgOther, preload>>

\* The lists of image URLs a PRELOAD_PRODUCT_IMAGES message may carry
PreloadLists == UNION {[1..n -> {UrlA, UrlC}] : n \in 0..MaxItems}

\* One pass of the for loop is over: results.push(result), then the next
\* imageUrl, or return results and sendResponse({ success: true, results })
PreNext(result) ==
  LET results == Append(preload.results, result)
      last == preload.i = Len(preload.urls)
  IN /\ preload' = [preload EXCEPT !.results = results, !.image = Null,
                                   !.i = IF last THEN @ ELSE @ + 1,
                                   !.pc = IF last THEN "done" ELSE "lookup"]
     /\ reply' = IF last
                 THEN [NoReply EXCEPT !.type = "PRELOAD_PRODUCT_IMAGES", !.success = TRUE,
                                      !.results = results]
                 ELSE reply

\* message.type === 'PRELOAD_PRODUCT_IMAGES': preloadProductImages(imageUrls) is called
PreStart ==
  /\ preload.pc = "idle"
  /\ \E urls \in PreloadLists :
       IF Len(urls) = 0
       THEN /\ preload' = [NoPreload EXCEPT !.pc = "done"]
            /\ reply' = [NoReply EXCEPT !.type = "PRELOAD_PRODUCT_IMAGES", !.success = TRUE]
       ELSE /\ preload' = [NoPreload EXCEPT !.pc = "lookup", !.urls = urls, !.i = 1]
            /\ UNCHANGED reply
  /\ lastIO' = NoIO
  /\ UNCHANGED <<storage, msgOther>>

\* const cached = await getCachedProductImage(imageUrl)
PreLookup ==
  /\ preload.pc = "lookup"
  /\ \E getOk \in BOOLEAN, removeOk \in BOOLEAN :
       LET url == preload.urls[preload.i]
           r == getCachedProductImage(storage, url, getOk, removeOk) IN
       /\ storage' = r.storage
       /\ lastIO' = r.io
       /\ IF UseCached(r)
          THEN PreNext([url |-> url, status |-> "already_cached"])
          ELSE preload' = [preload EXCEPT !.pc = "fetch"] /\ UNCHANGED reply
  /\ UNCHANGED msgOther

\* const base64Image = await convertUrlToBase64(imageUrl)
PreFetch ==
  /\ preload.pc = "fetch"
  /\ lastIO' = NoIO
  /\ \E ok \in BOOLEAN :
       LET url == preload.urls[preload.i] IN
       IF ok
       THEN preload' = [preload EXCEPT !.pc = "put", !.image = convertUrlToBase64(url)]
            /\ UNCHANGED reply
       ELSE PreNext([url |-> url, status |-> "failed"])
  /\ UNCHANGED <<storage, msgOther>>

\* await cacheProductImage(imageUrl, base64Image); results.push({ status: 'cached' })
PrePut ==
  /\ preload.pc = "put"
  /\ \E setOk \in BOOLEAN :
       LET url == preload.urls[preload.i] IN
       /\ storage' = cacheProductImage(storage, url, preload.image, now, setOk)
       /\ lastIO' = [NoIO EXCEPT !.set = Outcome(setOk)]
       /\ PreNext([url |-> url, status |-> "cached"])
  /\ UNCHANGED msgOther

NextMessages == OnClearMessage \/ PreStart \/ PreLookup \/ PreFetch \/ PrePut

SpecMessages == InitCache /\ [][NextMessages]_vars

-----------------------------------------------------------------------------
(* The content script's message listener and sendMessageWithTimeout, which  *)
(* share this.processedRequests                                             *)

pageOther == <<storage, now, ret, lastIO, pipeVars, sweep, workers, fetched, parsed, single,
               tryOn, tabs, outbox, reply, preload, saved, hashed>>

\* The messages that may reach the listener
MessageTypes == {"PING", "OPEN_SIDEBAR", "STYLE_ME_SUCCESS", "STYLE_ME_ERROR", "OTHER"}
PageMessages ==
  [source : {"content_script", "background"}, requestId : RequestIds \cup {NoId},
   type : MessageTypes]

\* Whether the listener returns before the switch on message.type
IgnoredNever(message) == FALSE
Ignored(message) ==
  \/ message.source = "content_script"
  \/ message.requestId # NoId /\ message.requestId \in page.processed

\* chrome.runtime.onMessage listener of the content script
OnMessage ==
  /\ page.delivered < MaxDeliveries
  /\ \E message \in PageMessages :
       LET id == message.requestId IN
       page' = IF Ignored(message)
               THEN [page EXCEPT !.delivered = @ + 1,
                                 !.last = [source |-> message.source, requestId |-> id,
                                           type |-> message.type, dispatched |-> FALSE]]
               ELSE [page EXCEPT !.delivered = @ + 1,
                                 !.processed = IF id # NoId THEN @ \cup {id} ELSE @,
                                 !.count = IF id # NoId THEN [@ EXCEPT ![id] = @ + 1] ELSE @,
                                 !.last = [source |-> message.source, requestId |-> id,
                                           type |-> message.type, dispatched |-> TRUE]]
  /\ UNCHANGED pageOther

\* sendMessageWithTimeout: a fresh requestId is generated and the message is sent
CsSend ==
  /\ \E id \in RequestIds \ page.generated :
       page' = [page EXCEPT !.generated = @ \cup {id}, !.waiting = @ \cup {id}]
  /\ UNCHANGED pageOther

\* sendMessageWithTimeout: the race is won by the response; the cleanup timer is set
CsResponse ==
  /\ \E id \in page.waiting :
       page' = [page EXCEPT !.waiting = @ \ {id}, !.timers = @ \cup {id}]
  /\ UNCHANGED pageOther

\* sendMessageWithTimeout: the race is lost (timeout, or the send rejected); no timer is set
CsRejected ==
  /\ \E id \in page.waiting :
       page' = [page EXCEPT !.waiting = @ \ {id}]
  /\ UNCHANGED pageOther

\* The cleanup timer fires after a minute: this.processedRequests.delete(requestId)
CsCleanup ==
  /\ \E id \in page.timers :
       page' = [page EXCEPT !.timers = @ \ {id}, !.processed = @ \ {id},
                            !.cleaned = IF id \in page.processed
                                        THEN [@ EXCEPT ![id] = @ + 1] ELSE @]
  /\ UNCHANGED pageOther

NextPage == OnMessage \/ CsSend \/ CsResponse \/ CsRejected \/ CsCleanup

SpecPage == Init /\ [][NextPage]_vars

-----------------------------------------------------------------------------
(* The saved products of the content script: addToSavedProducts,           *)
(* removeProduct, savePersistentData and the loadSavedProducts of init      *)

savedOther == <<storage, now, ret, lastIO, pipeVars, sweep, workers, fetched, parsed, single,
                tryOn, tabs, outbox, reply, preload, page, hashed>>

SavedLimit == 20

\* A product as the page describes it
ProductInfo(image, name) == [image |-> image, name |-> name]

\* Array.prototype.slice(0, n)
Slice(list, n) == SubSeq(list, 1, IF Len(list) < n THEN Len(list) ELSE n)

\* Array.prototype.splice(index, 1): a negative index counts from the end
Splice(list, index) ==
  LET start == IF index < 0 THEN (IF Len(list) + index < 0 THEN 0 ELSE Len(list) + index)
               ELSE index
  IN IF start >= Len(list) THEN list
     ELSE SubSeq(list, 1, start) \o SubSeq(list, start + 2, Len(list))

\* this.savedProducts after addToSavedProducts(productInfo)
addToSavedProductsUncapped(list, productInfo) ==
  IF \E j \in 1..Len(list) : list[j].image = productInfo.image THEN list
  ELSE <<productInfo>> \o list
addToSavedProducts(list, productInfo) ==
  IF \E j \in 1..Len(list) : list[j].image = productInfo.image THEN list
  ELSE LET unshifted == <<productInfo>> \o list IN
       IF Len(unshifted) > SavedLimit THEN Slice(unshifted, SavedLimit) ELSE unshifted

\* this.savedProducts after removeProduct(index)
removeProduct(list, index) == Splice(list, index)

\* savePersistentData: chrome.storage.local.set({ savedProducts }) with the
\* list as it is at the call; a rejected set is logged
Persisted(list, setOk) ==
  [saved EXCEPT !.stored = IF setOk THEN list ELSE @,
                !.hasStored = IF setOk THEN TRUE ELSE @]

\* The user saves a product: one not met before, or one whose image is that
\* of the first or of the last saved product
AddProduct ==
  /\ \E productInfo \in
         (IF saved.met < MaxImages THEN {ProductInfo(saved.met + 1, "a")} ELSE {})
         \cup {ProductInfo(saved.list[j].image, "b") : j \in {1, Len(saved.list)} \cap 1..Len(saved.list)},
        setOk \in BOOLEAN :
       LET exists == \E j \in 1..Len(saved.list) : saved.list[j].image = productInfo.image
           list == addToSavedProducts(saved.list, productInfo)
       IN saved' = [(IF exists THEN saved ELSE Persisted(list, setOk)) EXCEPT
                      !.list = list,
                      !.met = IF productInfo.image > @ THEN productInfo.image ELSE @,
                      !.last = [op |-> "add", image |-> productInfo.image,
                                before |-> saved.list, saved |-> ~exists /\ setOk]]
  /\ UNCHANGED savedOther

\* The user removes a saved product by its position
RemoveProduct ==
  /\ saved.removals < MaxRemovals
  /\ \E index \in {-1, 0, Len(saved.list)}, setOk \in BOOLEAN :
       LET list == removeProduct(saved.list, index) IN
       saved' = [Persisted(list, setOk) EXCEPT
                   !.list = list, !.removals = @ + 1,
                   !.last = [op |-> "remove", image |-> index,
                             before |-> saved.list, saved |-> setOk]]
  /\ UNCHANGED savedOther

NextSaved == AddProduct \/ RemoveProduct

\* The page is opened with the extension configured and nothing cached
InitSaved ==
  /\ storage = (ApiKeyKey :> [value |-> ApiKeyValue]) @@ (UserImageKey :> [value |-> StoredPhoto])
  /\ Idle

SpecSaved == InitSaved /\ [][NextSaved]_vars

\* What chrome.storage.local holds under savedProducts when the page is
\* opened: lists that earlier visits left
StoredLists == {<<>>, <<ProductInfo(1, "a")>>, <<ProductInfo(2, "a"), ProductInfo(1, "a")>>}

\* init(): this.loadSavedProducts() has issued its chrome.storage.local.get
\* and the constructor returns with this.savedProducts = []
Loading ==
  {[NoSaved EXCEPT !.loading = TRUE]} \cup
  {[NoSaved EXCEPT !.loading = TRUE, !.stored = s, !.hasStored = TRUE,
                   !.snapshot = s, !.hasSnapshot = TRUE, !.met = Len(s)] : s \in StoredLists}

\* loadSavedProducts resumes after its await: if (result.savedProducts)
\* this.savedProducts = result.savedProducts; a rejected get is logged
LoadDone ==
  /\ saved.loading
  /\ \E getOk \in BOOLEAN :
       saved' = [saved EXCEPT !.loading = FALSE,
                              !.list = IF getOk /\ saved.hasSnapshot THEN saved.snapshot ELSE @]
  /\ UNCHANGED savedOther

NextLoad == AddProduct \/ RemoveProduct \/ LoadDone

InitLoad ==
  /\ storage = (ApiKeyKey :> [value |-> ApiKeyValue]) @@ (UserImageKey :> [value |-> StoredPhoto])
  /\ PageIdle
  /\ saved \in Loading

SpecLoad == InitLoad /\ [][NextLoad]_vars

-----------------------------------------------------------------------------
(* generateUrlHash on its own: one url, hashed twice                        *)

hashOther == <<storage, now, ret, lastIO, pipeVars, sweep, workers, fetched, parsed, single,
               tryOn, tabs, outbox, reply, preload, page, saved>>

\* Char codes of the urls: 'A', 'B', 'a' and the largest UTF-16 code unit
Alphabet == {65, 66, 97, 65535}

\* The urls hashed: every string over Alphabet up to MaxUrlLen characters,
\* 'lchryow', whose hash value is minus that of 'Aa' and 'BB', and
\* 'xfjfxtf', whose hash value is -2^31
HashInputs ==
  UNION {[1..n -> Alphabet] : n \in 0..MaxUrlLen}
  \cup {<<108, 99, 104, 114, 121, 111, 119>>, <<120, 102, 106, 102, 120, 116, 102>>}

\* const urlHash = generateUrlHash(url), the first call with this url
HashCall ==
  /\ hashed.calls = 0
  /\ hashed' = [hashed EXCEPT !.calls = 1, !.key = generateUrlHash(hashed.url)]
  /\ UNCHANGED hashOther

\* A later call with the same url
HashAgain ==
  /\ hashed.calls = 1
  /\ hashed' = [hashed EXCEPT !.calls = 2, !.again = generateUrlHash(hashed.url)]
  /\ UNCHANGED hashOther

NextHash == HashCall \/ HashAgain

InitHash ==
  /\ storage = (ApiKeyKey :> [value |-> ApiKeyValue]) @@ (UserImageKey :> [value |-> StoredPhoto])
  /\ BackgroundIdle
  /\ saved = NoSaved
  /\ hashed \in {[NoHash EXCEPT !.url = Url(chars)] : chars \in HashInputs}

SpecHash == InitHash /\ [][NextHash]_vars

-----------------------------------------------------------------------------
(* The parsing of a 2xx synthesis response on its own: the try block that  *)
(* generateOutfitImage and extractActualProductImage share                  *)

\* The images a response may be about
ParsedImages == {Extracted(Served(UrlA)), Composed(StoredPhoto.content, Served(UrlC))}

\* One run of the try block on response resp; refOk: whether the fetch of a
\* reference found in it succeeds
ParseCall ==
  \E img \in ParsedImages, other \in ParsedImages, refOk \in BOOLEAN :
  \E shape \in {r \in Responses(img) : r.ok} :
  \E text \in {shape.text, IF shape.text = Null THEN Null ELSE TextWithUrl(RefUrl(other))} :
    LET resp == [shape EXCEPT !.text = text]
        p == ParseResponse(resp) IN
    /\ parsed' =
         [called |-> TRUE, resp |-> resp,
          fetchRef |-> IF p.kind = "fetch" THEN p.value ELSE Null,
          result |-> IF p.kind = "direct" THEN p.value
                     ELSE IF p.kind = "fetch" /\ refOk THEN convertUrlToBase64(p.value)
                     ELSE Null,
          error |-> IF p.kind = "direct" \/ (p.kind = "fetch" /\ refOk) THEN ""
                    ELSE IF p.kind = "fetch" THEN "Failed to fetch image"
                    ELSE IF p.kind = "typeerror" THEN "TypeError"
                    ELSE "Failed to generate image"]
    /\ UNCHANGED <<storage, now, ret, lastIO, pipeVars, sweep, workers, fetched, single, scriptVars>>

NextParse == ParseCall

SpecParse == Init /\ [][NextParse]_vars

-----------------------------------------------------------------------------
(* Properties *)

\* "not a non-empty string starting with 'data:'", said of a stored payload
ImageLike(v) == v.t = "string" /\ v.scheme = "data"
\* The raw image a fetch of a product's source reference yields
RawOf(product) == [t |-> "string", scheme |-> "data",
                   content |-> [k |-> "raw", of |-> product.image.content.chars]]
\* The fetched base photo
BasePhoto ==
  [t |-> "string", scheme |-> "data",
   content |-> IF baseRef.scheme = "data" THEN baseRef.content
               ELSE [k |-> "raw", of |-> baseRef.content.chars]]

\* C1: if the composition step of item k fails (non-success status, failed
\* fetch of the returned reference, or a response whose text holds no URL and
\* which carries no image), the request ends with one error that names item k
\* and with no success.
C1_AllOrNothing ==
  (pc = "done" /\ failedItem > 0 /\ failCause \in {"status", "fetch", "noimage"}) =>
     /\ Len(sent) = 1
     /\ sent[1].type = "STYLE_ME_ERROR"
     /\ sent[1].error.item = req.products[failedItem].name

\* C2: the base image of the first composition call is the fetched base photo,
\* the base image of every later call is the image the call before it
\* produced, and a success carries the image the last call produced.
C2_Accumulation ==
  /\ \A j \in 1..Len(composeLog) :
       composeLog[j].base = IF j = 1 THEN BasePhoto ELSE composeLog[j - 1].out
  /\ (pc = "done" /\ Len(sent) > 0 /\ sent[1].type = "STYLE_ME_SUCCESS"
        /\ Len(req.products) > 0) =>
       /\ Len(composeLog) = Len(req.products)
       /\ sent[1].generatedImage = composeLog[Len(composeLog)].out
C2_Witness ==
  /\ pc = "done" /\ Len(sent) = 1 /\ sent[1].type = "STYLE_ME_SUCCESS"
  /\ Len(composeLog) = 2
  /\ composeLog[2].base = composeLog[1].out
  /\ composeLog[1].out # BasePhoto

\* C3: the j-th composition call is for the j-th item of the submitted list,
\* with an image of that item, and while an item's image is being resolved
\* exactly the calls of the items before it have been issued.
C3_Ordering ==
  /\ Len(composeLog) <= Len(req.products)
  /\ \A j \in 1..Len(composeLog) :
       /\ composeLog[j].name = req.products[j].name
       /\ composeLog[j].item.content \in
            {RawOf(req.products[j]).content,
             [k |-> "extracted", of |-> RawOf(req.products[j]).content]}
  /\ pc \in {"lookup", "exLookup", "exFetch", "exPutRaw", "exCall", "exRef",
             "exPutFinal", "fallback", "compose"} => Len(composeLog) = idx
C3_Witness ==
  /\ Len(composeLog) = 2
  /\ composeLog[1].name = "C" /\ composeLog[2].name = "A"
  /\ composeLog[1].via = "extract"

\* C4: with every image reachable and every synthesis response carrying an
\* image, generateOutfitImage returns one image, after exactly len(items)
\* composition calls and len(items) extraction calls less the cache hits.
C4_CallCount ==
  (pc = "done" /\ baseRef # Null /\ healthy) =>
     /\ Len(sent) = 1
     /\ sent[1].type = "STYLE_ME_SUCCESS"
     /\ Len(composeLog) = Len(req.products)
     /\ nExtract + hits = Len(req.products)

\* C5: a failed extraction never ends the request, and when the direct fetch
\* that follows it succeeds the composition call of that item is issued with
\* the raw fetched image.
C5_Fallback ==
  [][ /\ pc \in {"exFetch", "exCall", "exRef"} => pc' \in {"exPutRaw", "exPutFinal", "exRef", "fallback"}
      /\ (pc = "fallback" /\ pc' # "done") =>
            (pc' = "compose" /\ itemImg' = RawOf(Product))
      /\ (pc = "compose" /\ via = "fallback") =>
            /\ Len(composeLog') = Len(composeLog) + 1
            /\ composeLog'[Len(composeLog')].item = RawOf(Product)
            /\ composeLog'[Len(composeLog')].name = Product.name ]_vars
C5_Witness ==
  /\ Len(composeLog) > 0
  /\ composeLog[Len(composeLog)].via = "fallback"
  /\ nExtract > 0

C7_CorruptionRecovery ==
  (ret.op = "get" /\ CacheKey(ret.url) \in DOMAIN ret.before
     /\ ~ImageLike(ret.before[CacheKey(ret.url)].image)
     /\ lastIO.get = "ok" /\ lastIO.remove # "fail") =>
    /\ ~ret.hit
    /\ CacheKey(ret.url) \notin DOMAIN storage

\* C8: every hit of getCachedProductImage carries a payload that is a string
\* starting with 'data:'; an entry failing this is never returned.
C8_ValidHits ==
  ret.op = "get" =>
    /\ ret.hit => (ImageLike(ret.entry.image)
                     /\ CacheKey(ret.url) \in DOMAIN ret.before
                     /\ ret.entry = ret.before[CacheKey(ret.url)])
    /\ (CacheKey(ret.url) \in DOMAIN ret.before
          /\ ~ImageLike(ret.before[CacheKey(ret.url)].image)) => ~ret.hit
C8_Witness ==
  /\ ret.op = "get" /\ ~ret.hit
  /\ CacheKey(ret.url) \in DOMAIN ret.before
  /\ ret.before[CacheKey(ret.url)].image.scheme = "junk"
  /\ lastIO.get = "ok"

\* The storage a cleanup at time t must leave: the entries of the cache more
\* than maxAge old removed, everything else as it was
Swept(st, t, maxAge) ==
  [k \in {x \in DOMAIN st : ~(x.ns = "productImage_" /\ t - st[x].timestamp > maxAge)} |-> st[k]]

C10_SingleOutcome ==
  /\ [](Len(sent) <= 1)
  /\ [](Len(sent) = 1 =>
          /\ pc = "done"
          /\ \/ sent[1].type = "STYLE_ME_SUCCESS" /\ sent[1].generatedImage = current
                  /\ sent[1].error = NoError
             \/ sent[1].type = "STYLE_ME_ERROR" /\ sent[1].error # NoError)
  /\ [](pc \notin {"idle", "ignored"} => <>(pc = "done" /\ Len(sent) = 1))
C10_Witness ==
  /\ pc = "done" /\ Len(sent) = 1 /\ sent[1].type = "STYLE_ME_SUCCESS"
  /\ Len(composeLog) = 2

\* C11: a success is sent only after at least one apparel item was merged;
\* the unmodified base photo is never the image of a success (in particular
\* for an empty product list).
C11_NoEmptySuccess ==
  (pc = "done" /\ Len(sent) = 1 /\ sent[1].type = "STYLE_ME_SUCCESS") =>
     /\ Len(composeLog) >= 1
     /\ sent[1].generatedImage # BasePhoto

\* C12: when every image fetch and every synthesis call of a request
\* succeeded, the request ends with a success carrying the composed image,
\* whatever the storage calls of the cache did.
C12_StorageNeverFatal ==
  (pc = "done" /\ baseRef # Null /\ healthy) =>
     /\ sent = <<SuccessMessage(current)>>
     /\ (Len(composeLog) > 0 => current = composeLog[Len(composeLog)].out)

\* C13: a get or a put one of whose storage calls failed ends in a thrown
\* error: the get does not return absent, the put does not complete normally.
C13_StorageErrorsThrown ==
  (ret.op \in {"get", "put"}
     /\ (lastIO.get = "fail" \/ lastIO.set = "fail" \/ lastIO.remove = "fail")) =>
    ret.threw

\* C14: every request that was taken up eventually ends, with a result or
\* with an error, also when a remote endpoint never responds.
C14_RemoteCallsBounded ==
  [](pc \notin {"idle", "ignored"} => <>(pc = "done" /\ Len(sent) = 1))

Cleared(st) == [k \in {x \in DOMAIN st : x.ns # "productImage_"} |-> st[k]]

Collide(u, v) == {u, v} = {UrlA, UrlB}
\* What the storage holds under the key of reference u, or NoEntry
EntryOf(st, u) == IF CacheKey(u) \in DOMAIN st THEN st[CacheKey(u)] ELSE NoEntry

\* C19: a hit of get(u) is an entry stored for u (or for a reference whose
\* hash equals that of u); a put for v stores under a key fixed by v alone and
\* changes the entry of no reference u # v whose hash differs from that of v.
C19_KeyedByReference ==
  /\ (ret.op = "get" /\ ret.hit) =>
       (ret.entry.url = ret.url \/ Collide(ret.entry.url, ret.url))
  /\ ret.op = "put" =>
       /\ \A u \in SourceUrls :
            (u # ret.url /\ ~Collide(u, ret.url)) =>
               EntryOf(storage, u) = EntryOf(ret.before, u)
       /\ lastIO.set = "ok" =>
            /\ DOMAIN storage = DOMAIN ret.before \cup {CacheKey(ret.url)}
            /\ \A v \in SourceUrls :
                 (v = ret.url \/ Collide(v, ret.url)) <=> CacheKey(v) = CacheKey(ret.url)
C19_Witness ==
  /\ ret.op = "get" /\ ret.hit
  /\ ret.url = UrlA /\ ret.entry.url = UrlB
  /\ CacheKey(UrlC) \in DOMAIN storage

C17_SweepRemovesOnlyOld ==
  [][ (sweep.pc = "remove" /\ sweep'.pc = "idle") =>
        \A k \in DOMAIN storage :
          k \notin DOMAIN storage' => now - storage[k].timestamp > sweep.maxAge ]_vars

\* C18: once both tabs have finished, with no storage call of theirs failed
\* and the extraction succeeded in at least one of them, the entry of the
\* shared reference is not a raw fetched payload.
C18_ExtractedSupersedesRaw ==
  ((\A w \in Workers : workers[w].pc = "done" /\ workers[w].clean)
     /\ (\E w \in Workers : workers[w].result = "extracted")
     /\ CacheKey(SharedRef) \in DOMAIN storage) =>
    storage[CacheKey(SharedRef)].image # convertUrlToBase64(SharedRef)

\* The closed set of format tags of an ImagePayload
FormatTags == {Mime("image", "jpeg"), Mime("image", "png"), Mime("image", "webp"),
               Mime("image", "gif")}

\* C21: every payload convertUrlToBase64 returns is tagged jpeg, png, webp
\* or gif, whatever content-type the response declared.
C21_ClosedFormatTags ==
  (fetched.called /\ ~fetched.threw) => fetched.result.tag \in FormatTags

\* The extension table of the Image Fetcher
SuffixTag(pathname) ==
  CASE pathname \in {".jpg", ".jpeg"} -> Mime("image", "jpeg")
    [] pathname = ".png" -> Mime("image", "png")
    [] pathname = ".webp" -> Mime("image", "webp")
    [] pathname = ".gif" -> Mime("image", "gif")
    [] OTHER -> Mime("image", "jpeg")

\* C27: the payload returned is tagged with the declared content-type when
\* there is one and with the tag of the URL's path ending otherwise, also
\* when the raw encoding carried another tag; a non-success status makes the
\* call throw.
C27_FormatTagResolution ==
  fetched.called =>
    /\ fetched.threw <=> ~fetched.ok
    /\ fetched.ok =>
         /\ fetched.result.bytes = readAsDataURL(fetched.contentType).bytes
         /\ fetched.result.tag = IF fetched.contentType # NoMime THEN fetched.contentType
                                 ELSE SuffixTag(fetched.pathname)
C27_Witness ==
  /\ fetched.called /\ fetched.ok
  /\ fetched.contentType = NoMime /\ fetched.pathname = ".webp"
  /\ fetched.result.tag = Mime("image", "webp")
  /\ readAsDataURL(fetched.contentType).tag # fetched.result.tag

\* The steps of a request in which the Image Fetcher runs
FetcherSteps == {"fetchBase", "exFetch", "exRef", "fallback", "compRef"}

\* C22: every entry a step of a request writes to the storage is a cache
\* entry under the key of a submitted item's source reference, holding the raw
\* or the extracted image of that reference; no key outside the cache changes
\* and the steps in which the Image Fetcher runs write nothing.
C22_CacheWritesOnlyItems ==
  [][ /\ \A k \in DOMAIN storage' :
           (k \notin DOMAIN storage \/ storage'[k] # storage[k]) =>
              /\ IsCacheKey(k)
              /\ \E j \in 1..Len(req.products) :
                   /\ k = CacheKey(req.products[j].image)
                   /\ storage'[k].url = req.products[j].image
                   /\ storage'[k].image.content \in
                        {RawOf(req.products[j]).content,
                         Extracted(RawOf(req.products[j]).content)}
      /\ \A k \in DOMAIN storage : k \notin DOMAIN storage' => IsCacheKey(k)
      /\ pc \in FetcherSteps => storage' = storage ]_vars
C22_Witness ==
  /\ pc = "done" /\ Len(sent) = 1 /\ sent[1].type = "STYLE_ME_SUCCESS"
  /\ Len(composeLog) = 2
  /\ composeLog[1].via = "extract" /\ composeLog[2].via = "extract"
  /\ \A k \in DOMAIN storage :
       IsCacheKey(k) => k \in {CacheKey(req.products[j].image) : j \in 1..2}
  /\ Cardinality({k \in DOMAIN storage : IsCacheKey(k)}) = 2

\* The positions inside extractActualProductImage after its cache check missed
ExtractSteps == {"exFetch", "exPutRaw", "exCall", "exRef", "exPutFinal"}

\* C23: after a cache miss extractActualProductImage ends in one of two ways:
\* it returns the image obtained from the synthesis response, which is not the
\* raw image it fetched, or it throws (and the caller's catch takes over).
C23_NoSilentSubstitution ==
  [][ (pc \in ExtractSteps /\ pc' \notin ExtractSteps) =>
        \/ /\ pc = "exPutFinal" /\ pc' = "compose"
           /\ via' = "extract"
           /\ itemImg' = pending
           /\ itemImg'.content = Extracted(RawOf(Product).content)
           /\ itemImg' # RawOf(Product)
           /\ nExtract > 0
        \/ /\ pc \in {"exFetch", "exCall", "exRef"}
           /\ pc' = "fallback"
           /\ itemImg' = itemImg ]_vars
C23_Witness ==
  /\ pc = "compose" /\ via = "extract" /\ idx = 0
  /\ itemImg = DataUrl(Extracted(RawOf(Product).content))
  /\ nExtract = 1 /\ nFetch = 3

C26_ParsePriority ==
  parsed.called =>
    LET image == parsed.resp.image
        text == parsed.resp.text
    IN IF image.t = "string" /\ image.scheme = "data"
       THEN parsed.result = image /\ parsed.fetchRef = Null /\ parsed.error = ""
       ELSE IF image.t = "string" /\ image.scheme = "http"
       THEN parsed.fetchRef = image /\ parsed.error \in {"", "Failed to fetch image"}
       ELSE IF text # Null /\ text.content.k = "quote"
       THEN parsed.fetchRef = text.content.url /\ parsed.error \in {"", "Failed to fetch image"}
       ELSE parsed.fetchRef = Null /\ parsed.result = Null
            /\ parsed.error = "Failed to generate image"

\* C28: in the single-call variant the collected images are those of the
\* items in list order, each one the cached, the extracted or the raw fetched
\* image of its item; at most one composition call is issued, only after
\* every item is resolved, carrying the base photo followed by the item
\* images in list order; a request that succeeds issued exactly one call, and
\* a failed call ends the request with one error and no success.
C28_SingleCall ==
  /\ Len(single.images) = (IF pc \in {"idle", "ignored", "retrieve"} THEN 0 ELSE idx)
  /\ Len(single.images) <= Len(req.products)
  /\ \A j \in 1..Len(single.images) :
       /\ single.names[j] = req.products[j].name
       /\ single.images[j].content \in
            {RawOf(req.products[j]).content,
             [k |-> "extracted", of |-> RawOf(req.products[j]).content]}
  /\ Len(single.calls) <= 1
  /\ \A c \in 1..Len(single.calls) :
       /\ Len(single.images) = Len(req.products)
       /\ single.calls[c].parts = <<BasePhoto>> \o single.images
       /\ single.calls[c].names = [j \in 1..Len(req.products) |-> req.products[j].name]
  /\ (pc = "done" /\ Len(sent) > 0 /\ sent[1].type = "STYLE_ME_SUCCESS") =>
        Len(single.calls) = 1
  /\ (pc = "done" /\ failCause # "none") =>
        /\ Len(single.calls) = 1
        /\ Len(sent) = 1
        /\ sent[1].type = "STYLE_ME_ERROR"
C28_Witness ==
  /\ pc = "done"
  /\ Len(single.calls) = 1
  /\ Len(single.calls[1].parts) = 3
  /\ single.calls[1].names = <<"C", "A">>
  /\ single.calls[1].parts[2].content.k = "extracted"
  /\ single.calls[1].parts[3].content.k = "raw"
  /\ sent[1].type = "STYLE_ME_SUCCESS"

\* The messages of a request that failed: one error, no success
FailedOnce == Len(sent) = 1 /\ sent[1].type = "STYLE_ME_ERROR"

\* C29: the fetch of the base photo, the fallback fetch of an item and the
\* composition of an item either succeed or end the request at once with one
\* error, never repeating the call and never moving to a later item; once
\* the request has ended no call counter moves, and a request that failed at
\* item k has issued no call for an item after k.
C29_FailStops ==
  /\ [][ /\ pc = "fetchBase" =>
              \/ pc' \in {"lookup", "stats"} /\ ImageLike(current') /\ sent' = sent
              \/ pc' = "done" /\ FailedOnce' /\ idx' = idx /\ composeLog' = composeLog
         /\ pc = "fallback" =>
              \/ pc' = "compose" /\ ImageLike(itemImg') /\ idx' = idx /\ sent' = sent
              \/ pc' = "done" /\ FailedOnce' /\ idx' = idx /\ composeLog' = composeLog
         /\ pc = "compose" =>
              \/ pc' \in {"lookup", "stats"} /\ idx' = idx + 1 /\ ImageLike(current')
                  /\ sent' = sent
              \/ pc' = "compRef" /\ idx' = idx /\ sent' = sent
              \/ pc' = "done" /\ FailedOnce' /\ idx' = idx /\ nFetch' = nFetch
                  /\ nExtract' = nExtract
         /\ pc = "compRef" =>
              \/ pc' \in {"lookup", "stats"} /\ idx' = idx + 1 /\ ImageLike(current')
                  /\ sent' = sent
              \/ pc' = "done" /\ FailedOnce' /\ idx' = idx /\ composeLog' = composeLog
                  /\ nExtract' = nExtract
         /\ pc = "done" =>
              /\ nFetch' = nFetch /\ nExtract' = nExtract
              /\ composeLog' = composeLog /\ idx' = idx /\ sent' = sent ]_vars
  /\ [](pc = "done" /\ FailedOnce /\ current # Null =>
          /\ idx < Len(req.products) \/ lastIO.get = "fail"
          /\ Len(composeLog) \in {idx, idx + 1}
          /\ nExtract + hits <= idx + 1)
C29_Witness ==
  /\ pc = "done"
  /\ FailedOnce
  /\ failedItem = 1
  /\ Len(req.products) = 2
  /\ Len(composeLog) = 1
  /\ nExtract = 1

\* The stored API key or the stored user image is missing
StoredMissing ==
  \/ ~(ApiKeyKey \in DOMAIN storage /\ Truthy(storage[ApiKeyKey].value))
  \/ ~(UserImageKey \in DOMAIN storage /\ Truthy(storage[UserImageKey].value))

\* C30: with the stored API key or the stored user image missing, a request
\* that was taken up ends with exactly one STYLE_ME_ERROR and with no fetch,
\* no extraction call and no composition call, whatever userImage it
\* carries; with both stored, no fetch is made before the base photo is
\* chosen, and the base photo is the request's userImage when that is
\* non-null and the stored user image when it is null.
C30_StoredDataRequired ==
  /\ (StoredMissing /\ pc \notin {"idle", "ignored", "retrieve"}) =>
        /\ pc = "done"
        /\ FailedOnce
        /\ baseRef = Null /\ current = Null
        /\ nFetch = 0 /\ nExtract = 0 /\ composeLog = <<>>
  /\ (nFetch > 0 \/ nExtract > 0 \/ Len(composeLog) > 0) => baseRef # Null
  /\ (~StoredMissing /\ baseRef # Null) =>
        baseRef = (IF req.userImage # Null THEN req.userImage
                   ELSE storage[UserImageKey].value)
C30_Witness ==
  /\ StoredMissing
  /\ pc = "done"
  /\ req.userImage = RequestPhoto
  /\ Len(req.products) = 2
  /\ FailedOnce
  /\ lastIO.get = "ok"

\* The cache holds the raw fetched image of url under url's key
RawCached(url) ==
  /\ CacheKey(url) \in DOMAIN storage
  /\ storage[CacheKey(url)].image = convertUrlToBase64(url)

C32_OneOutcome ==
  \A i \in 1..Len(tryOn.shown), j \in 1..Len(tryOn.shown) :
    (i < j /\ tryOn.shown[i] = "failed") => tryOn.shown[j] # "result"

\* The fetched images an image was made from
RECURSIVE Sources(_)
Sources(img) ==
  IF img.k = "composed" THEN Sources(img.base) \cup Sources(img.item)
  ELSE IF img.k = "extracted" THEN Sources(img.of)
  ELSE {img}

\* The fetched images of the request of tab t: its base photo and its items
OwnSources(t) ==
  {Served(tabs[t].baseRef)} \cup
  {Served(tabs[t].products[j].image) : j \in 1..Len(tabs[t].products)}

\* C33: with the requests of two tabs interleaved, every message delivered
\* to a tab is the outcome of that tab's request, one outcome per request,
\* and the image of a success is made only of the base photo and the items
\* of that request.
C33_Isolation ==
  \A d \in Workers :
    /\ Len(outbox[d]) <= 1
    /\ \A j \in 1..Len(outbox[d]) :
         /\ outbox[d][j].from = d
         /\ outbox[d][j].type = "STYLE_ME_SUCCESS" =>
              Sources(outbox[d][j].image.content) \subseteq OwnSources(d)

\* C34: a CLEAR_PRODUCT_CACHE request is answered with success: true only
\* if no cache entry that was stored when it started is stored any more.
C34_ClearAnswer ==
  (reply.type = "CLEAR_PRODUCT_CACHE" /\ reply.success) =>
     \A k \in DOMAIN reply.before : IsCacheKey(k) => k \notin DOMAIN storage

\* The cache holds a valid entry under url's key
ValidEntry(url) ==
  /\ CacheKey(url) \in DOMAIN storage
  /\ Truthy(storage[CacheKey(url)].image)
  /\ ValidImage(storage[CacheKey(url)].image)

\* C35: preloadProductImages returns one result per input URL, in input
\* order, with status already_cached, cached or failed; a URL with a valid
\* cache entry is not fetched; after a failed fetch the loop goes on with
\* the next URL; and when status cached is recorded the fetched image is
\* stored under the URL's key.
C35_PreloadResults ==
  /\ [](preload.pc = "done" =>
          /\ Len(preload.results) = Len(preload.urls)
          /\ reply.type = "PRELOAD_PRODUCT_IMAGES" => reply.results = preload.results
          /\ \A j \in 1..Len(preload.results) :
               /\ preload.results[j].url = preload.urls[j]
               /\ preload.results[j].status \in {"already_cached", "cached", "failed"})
  /\ [][ /\ (preload.pc = "lookup" /\ ValidEntry(preload.urls[preload.i])) =>
              preload'.pc # "fetch"
         /\ (preload.pc = "fetch" /\ preload'.pc \notin {"fetch", "put"}) =>
              /\ preload'.results = Append(preload.results,
                                            [url |-> preload.urls[preload.i], status |-> "failed"])
              /\ preload'.pc = (IF preload.i < Len(preload.urls) THEN "lookup" ELSE "done")
         /\ (Len(preload'.results) > Len(preload.results)
               /\ preload'.results[Len(preload'.results)].status = "cached") =>
              /\ CacheKey(preload.urls[preload.i]) \in DOMAIN storage'
              /\ storage'[CacheKey(preload.urls[preload.i])].image =
                    convertUrlToBase64(preload.urls[preload.i]) ]_vars

\* C36 as stated: no request id is dispatched more than once, and no
\* message whose source is 'content_script' is dispatched.
C36_Original ==
  /\ \A id \in RequestIds : page.count[id] <= 1
  /\ page.last.dispatched => page.last.source # "content_script"

\* C36, amended: a request id is dispatched again only after the cleanup
\* timer of sendMessageWithTimeout removed it from processedRequests; a
\* message whose id is in processedRequests is not dispatched, and no
\* message whose source is 'content_script' is dispatched.
C36_DispatchOncePerRecord ==
  /\ [](\A id \in RequestIds : page.count[id] <= 1 + page.cleaned[id])
  /\ [](page.last.dispatched => page.last.source # "content_script")
  /\ [][ \A id \in RequestIds :
           page'.count[id] > page.count[id] =>
             id \notin page.processed /\ id \in page'.processed ]_vars
C36_Witness ==
  /\ page.count["req_1"] = 1
  /\ page.cleaned["req_1"] = 0
  /\ page.last.requestId = "req_1"
  /\ page.last.source = "background"
  /\ ~page.last.dispatched

\* The images of a saved list, in order
Images(list) == [j \in 1..Len(list) |-> list[j].image]

\* C37: the saved list never holds more than 20 entries nor two entries
\* with the same image; an added product whose image is not saved becomes
\* the first entry, followed by the earlier entries in their order less
\* those beyond the twentieth; adding a product whose image is saved leaves
\* the list as it was.
C37_SavedList ==
  /\ Len(saved.list) <= 20
  /\ \A i \in 1..Len(saved.list), j \in 1..Len(saved.list) :
       saved.list[i].image = saved.list[j].image => i = j
  /\ saved.last.op = "add" =>
       LET before == saved.last.before IN
       IF saved.last.image \in {before[j].image : j \in 1..Len(before)}
       THEN saved.list = before
       ELSE /\ saved.list[1].image = saved.last.image
            /\ Len(saved.list) = (IF Len(before) < 20 THEN Len(before) + 1 ELSE 20)
            /\ \A j \in 2..Len(saved.list) : saved.list[j] = before[j - 1]
C37_Witness ==
  /\ saved.last.op = "add"
  /\ Len(saved.last.before) = 20
  /\ Len(saved.list) = 20
  /\ saved.list[1].image = saved.last.image
  /\ saved.list[1] # saved.last.before[1]
  /\ saved.list[20] = saved.last.before[19]

\* C38: in every step that is not a removal, each product of the saved
\* list stays in the list, and stays stored if it was stored, apart from the
\* one the 20-entry cap pushes out; and a product just added is in the list.
C38_AddSurvivesLoad ==
  [][ LET images(list) == {list[j].image : j \in 1..Len(list)}
          pushed == IF Len(saved.list) = 20 /\ Len(saved'.list) = 20
                       /\ saved'.list[1] # saved.list[1]
                    THEN {saved.list[20].image} ELSE {}
      IN /\ saved'.removals = saved.removals =>
              /\ images(saved.list) \ pushed \subseteq images(saved'.list)
              /\ (images(saved.list) \cap images(saved.stored)) \ pushed
                    \subseteq images(saved'.stored)
         /\ (saved'.last # saved.last /\ saved'.last.op = "add") =>
              saved'.last.image \in images(saved'.list) ]_vars

\* The fold of the claim, h := (31 * h + charCode) modulo 2^32, on limbs
RECURSIVE Fold31(_, _)
Fold31(h, chars) ==
  IF chars = <<>> THEN h
  ELSE LET lo == 31 * h[2] + Head(chars)
           hi == 31 * h[1] + (lo \div Limb)
       IN Fold31(<<hi % Limb, lo % Limb>>, Tail(chars))

\* -h modulo 2^32, and |h| for h read as a signed 32-bit value, on limbs
Negated(h) ==
  IF h[2] = 0 THEN <<(Limb - h[1]) % Limb, 0>> ELSE <<Limb - 1 - h[1], Limb - h[2]>>

Magnitude(h) ==
  IF h[1] < Limb \div 2 THEN h
  ELSE IF h = <<Limb \div 2, 0>> THEN h ELSE Negated(h)

\* The number a sequence of base-36 digits renders, on limbs
RECURSIVE FromDigits(_, _)
FromDigits(n, digits) ==
  IF digits = <<>> THEN n
  ELSE LET lo == 36 * n[2] + Head(digits)
       IN FromDigits(<<36 * n[1] + (lo \div Limb), lo % Limb>>, Tail(digits))

Rendering(digits) ==
  /\ Len(digits) \in 1..7
  /\ \A i \in 1..Len(digits) : digits[i] \in 0..35
  /\ Len(digits) > 1 => digits[1] # 0

\* C39: the hash of a url is the base-36 rendering of |h|, h the signed
\* 32-bit fold of 31 * h + charCode over its characters from 0; a second call
\* with the same url returns the same; the number rendered lies in 0..2^31;
\* and a url whose fold is h or -h has the same hash, hence the same cache key.
C39_HashOfUrl ==
  hashed.calls >= 1 =>
    LET h == Fold31(<<0, 0>>, hashed.url.content.chars) IN
    /\ Rendering(hashed.key)
    /\ FromDigits(<<0, 0>>, hashed.key) = Magnitude(h)
    /\ \/ FromDigits(<<0, 0>>, hashed.key)[1] < Limb \div 2
       \/ FromDigits(<<0, 0>>, hashed.key) = <<Limb \div 2, 0>>
    /\ hashed.calls = 2 => hashed.again = hashed.key
    /\ \A chars \in HashInputs :
         Fold31(<<0, 0>>, chars) \in {h, Negated(h)} =>
           /\ generateUrlHash(Url(chars)) = hashed.key
           /\ CacheKey(Url(chars)) = CacheKey(hashed.url)

\* 'lchryow', whose fold is negative, has been hashed twice and has the hash
\* of 'Aa', whose fold is the opposite
C39_Witness ==
  /\ hashed.calls = 2
  /\ hashed.url = Url(<<108, 99, 104, 114, 121, 111, 119>>)
  /\ Fold31(<<0, 0>>, hashed.url.content.chars)[1] >= Limb \div 2
  /\ Negated(Fold31(<<0, 0>>, hashed.url.content.chars)) = Fold31(<<0, 0>>, UrlA.content.chars)
  /\ hashed.key = generateUrlHash(UrlA)
  /\ hashed.again = hashed.key

====
